---- MODULE Spec2Model ----
(***************************************************************************)
(* Pay-per-request gateway and task marketplace (alittlebitofmoney).       *)
(*                                                                         *)
(* The model has two layers.  The in-process layer is the single asyncio   *)
(* event loop of server.py: a handler runs without interruption between    *)
(* two awaits, so the code between two awaits is one step.  The database   *)
(* layer is PostgreSQL at READ COMMITTED as lib/topup_store.py and         *)
(* lib/hire_store.py use it: a transaction holds the row locks it took     *)
(* (SELECT .. FOR UPDATE, UPDATE) until it commits, a statement that needs *)
(* a row locked by another transaction waits, and the writes of a          *)
(* transaction become visible to the others at its commit.                 *)
(***************************************************************************)
EXTENDS Integers, Sequences, FiniteSets, Bags, TLC

-----------------------------------------------------------------------------
(* Bounds of the model *)

\* the wall clock stops advancing here
MaxTime == 4202

\* the gateway calls left in the day's cap of the path when the model starts
DailyHeadroom == 2

\* the withdrawals of one account that the model follows
MaxCollects == 1

\* top-up invoices are created while every balance is below this
MaxTopupBalance == 10

\* the caveats of a macaroon that the model follows
MaxCaveats == 4

-----------------------------------------------------------------------------
(* Program constants *)

ttl_seconds == 3600
cleanup_interval_seconds == 300
PostTaskPrice == 50
PostQuotePrice == 10

-----------------------------------------------------------------------------
(* Texts.  A text is a sequence of characters; hex digests, preimages and  *)
(* caveat values are texts, so that strip(), lower() and int() act on them *)
(* as they do in Python.                                                   *)

None == "None"

LowerChar(c) ==
    CASE c = "A" -> "a"
      [] c = "B" -> "b"
      [] c = "C" -> "c"
      [] c = "D" -> "d"
      [] c = "E" -> "e"
      [] c = "F" -> "f"
      [] OTHER -> c

Lower(s) == [i \in DOMAIN s |-> LowerChar(s[i])]

RECURSIVE LStrip(_)
LStrip(s) == IF s # <<>> /\ Head(s) = " " THEN LStrip(Tail(s)) ELSE s

RECURSIVE RStrip(_)
RStrip(s) ==
    IF s # <<>> /\ s[Len(s)] = " " THEN RStrip(SubSeq(s, 1, Len(s) - 1)) ELSE s

Strip(s) == RStrip(LStrip(s))

Digits == <<"0", "1", "2", "3", "4", "5", "6", "7", "8", "9">>

DigitChars == {Digits[i] : i \in 1..10}

DigitValue(c) == (CHOOSE i \in 1..10 : Digits[i] = c) - 1

\* str(n) of a Python int
RECURSIVE FormatNat(_)
FormatNat(n) ==
    IF n < 10 THEN <<Digits[n + 1]>>
    ELSE FormatNat(n \div 10) \o <<Digits[(n % 10) + 1]>>

FormatInt(n) == IF n < 0 THEN <<"-">> \o FormatNat(0 - n) ELSE FormatNat(n)

RECURSIVE DigitsValue(_, _)
DigitsValue(s, acc) ==
    IF s = <<>> THEN acc
    ELSE DigitsValue(Tail(s), acc * 10 + DigitValue(Head(s)))

IsDigits(s) == s # <<>> /\ \A i \in DOMAIN s : s[i] \in DigitChars

\* int(value): an optional sign and decimal digits, blanks around them
\* allowed; anything else raises ValueError (ok = FALSE here)
ParseInt(text) ==
    LET s == Strip(text)
        signed == s # <<>> /\ Head(s) \in {"+", "-"}
        body == IF signed THEN Tail(s) ELSE s
    IN  IF ~IsDigits(body) THEN [ok |-> FALSE, value |-> 0]
        ELSE IF signed /\ Head(s) = "-"
             THEN [ok |-> TRUE, value |-> 0 - DigitsValue(body, 0)]
             ELSE [ok |-> TRUE, value |-> DigitsValue(body, 0)]

\* server.py _canonical_hash
canonical_hash(payment_hash) == Lower(Strip(payment_hash))

-----------------------------------------------------------------------------
(* Payment hashes and preimages.  SHA-256 is a fixed injective table on    *)
(* the 32-byte preimages of the model; PreimageShort decodes from hex to   *)
(* fewer than 32 bytes and PreimageNotHex does not decode.                 *)

H1 == <<"a", "1">>
H2 == <<"b", "2">>
Preimage1 == <<"1", "1">>
Preimage2 == <<"2", "2">>
PreimageShort == <<"1">>
PreimageNotHex == <<"x", "y">>

Preimages32 == {Preimage1, Preimage2}

Sha256Hex(p) == IF p = Preimage1 THEN H1 ELSE H2

\* server.py _hash_from_preimage: the digest, or ok = FALSE for ValueError
hash_from_preimage(preimage) ==
    LET p == Strip(preimage)
    IN  IF p \in Preimages32
        THEN [ok |-> TRUE, hash |-> Sha256Hex(p)]
        ELSE [ok |-> FALSE, hash |-> <<>>]

-----------------------------------------------------------------------------
(* Macaroons (pymacaroons, first-party caveats only).  The signature is    *)
(* the HMAC chain from the key over the identifier and then over each      *)
(* caveat in order; HMAC is taken as unforgeable, so a signature is the    *)
(* record of what it was computed from.                                    *)

AccountIds == {"A", "B", "C"}

L402_ROOT_KEY == "root"
ForeignKey == "foreign"

Caveat(key, value) == [key |-> key, hasSep |-> TRUE, value |-> value]

HmacChain(key, identifier, caveats) ==
    [key |-> key, identifier |-> identifier, caveats |-> caveats]

MakeMacaroon(key, identifier, caveats) ==
    [wellformed |-> TRUE, identifier |-> identifier, caveats |-> caveats,
     signature |-> HmacChain(key, identifier, caveats)]

\* what the holder of a macaroon can do without the key
AddFirstPartyCaveat(m, c) ==
    [m EXCEPT !.caveats = Append(m.caveats, c),
              !.signature.caveats = Append(m.signature.caveats, c)]

\* an account id as it is written into a caveat, and read back
AccountText(account_id) == <<account_id>>

\* a mint that binds no macaroon to an account
create_l402_macaroon_Unbound(payment_hash, amount_sats, account_id) ==
    MakeMacaroon(
        L402_ROOT_KEY,
        payment_hash,
        <<Caveat("payment_hash", payment_hash),
          Caveat("amount_sats", FormatInt(amount_sats))>>)

\* server.py _create_l402_macaroon
create_l402_macaroon(payment_hash, amount_sats, account_id) ==
    MakeMacaroon(
        L402_ROOT_KEY,
        payment_hash,
        <<Caveat("payment_hash", payment_hash),
          Caveat("amount_sats", FormatInt(amount_sats))>>
        \o (IF account_id # None
            THEN <<Caveat("account_id", AccountText(account_id))>>
            ELSE <<>>))

\* key.strip() on the caveat keys of the model
StripKey(key) ==
    CASE key = " payment_hash " -> "payment_hash"
      [] key = " amount_sats " -> "amount_sats"
      [] OTHER -> key

\* the loop of server.py _extract_l402_caveats; st.error is "" until a
\* ValueError is raised
RECURSIVE ExtractLoop(_, _)
ExtractLoop(caveats, st) ==
    IF caveats = <<>> \/ st.error # "" THEN st
    ELSE LET c == Head(caveats)
             key == StripKey(c.key)
             value == Strip(c.value)
             amount == ParseInt(value)
             next ==
               IF ~c.hasSep THEN st
               ELSE IF key = "payment_hash" THEN
                      IF st.has_payment_hash
                      THEN [st EXCEPT !.error = "Duplicate payment_hash caveat"]
                      ELSE [st EXCEPT !.has_payment_hash = TRUE,
                                      !.payment_hash = canonical_hash(value)]
               ELSE IF key = "amount_sats" THEN
                      IF st.has_amount_sats
                      THEN [st EXCEPT !.error = "Duplicate amount_sats caveat"]
                      ELSE IF ~amount.ok
                      THEN [st EXCEPT !.error = "amount_sats caveat must be an integer"]
                      ELSE [st EXCEPT !.has_amount_sats = TRUE,
                                      !.amount_sats = amount.value]
               ELSE IF key = "account_id" THEN
                      [st EXCEPT !.has_account_id = TRUE, !.account_id = value]
               ELSE st
         IN  ExtractLoop(Tail(caveats), next)

ExtractChecks_Unchecked(st) == st

\* the checks of server.py _extract_l402_caveats after its loop
ExtractChecks(st) ==
    IF st.error # "" THEN st
    ELSE IF st.payment_hash = <<>>
    THEN [st EXCEPT !.error = "Missing payment_hash caveat"]
    ELSE IF ~st.has_amount_sats \/ st.amount_sats < 0
    THEN [st EXCEPT !.error = "Missing or invalid amount_sats caveat"]
    ELSE st

\* server.py _extract_l402_caveats
extract_l402_caveats(macaroon) ==
    ExtractChecks(ExtractLoop(macaroon.caveats,
                     [error |-> "",
                      has_payment_hash |-> FALSE, payment_hash |-> <<>>,
                      has_amount_sats |-> FALSE, amount_sats |-> 0,
                      has_account_id |-> FALSE, account_id |-> <<>>]))

SignatureVerifies_AnyKey(macaroon) ==
    macaroon.signature.identifier = macaroon.identifier
    /\ macaroon.signature.caveats = macaroon.caveats

\* Verifier.verify(macaroon, L402_ROOT_KEY) with every caveat satisfied
SignatureVerifies(macaroon) ==
    macaroon.signature =
        HmacChain(L402_ROOT_KEY, macaroon.identifier, macaroon.caveats)

\* server.py _verify_l402_macaroon
verify_l402_macaroon(macaroon) ==
    LET failed(msg) ==
          [error |-> msg,
           has_payment_hash |-> FALSE, payment_hash |-> <<>>,
           has_amount_sats |-> FALSE, amount_sats |-> 0,
           has_account_id |-> FALSE, account_id |-> <<>>]
    IN  IF ~macaroon.wellformed THEN failed("Invalid macaroon format")
        ELSE IF ~SignatureVerifies(macaroon) THEN failed("Invalid macaroon signature")
        ELSE extract_l402_caveats(macaroon)

\* the account a verified account_id caveat names; a text that is no
\* account id makes uuid.UUID() raise later on
AccountOfText(text) ==
    IF Len(text) = 1 /\ text[1] \in AccountIds THEN text[1] ELSE "invalid"

-----------------------------------------------------------------------------
(* The used-hash set (lib/used_hashes.py).  Its state is the pair of       *)
(* _used_hashes, a function from the stored hashes to their timestamps,    *)
(* and _last_cleanup; every method runs under the lock, without an await.  *)

UsedCleanup_Strict(uh, now_) ==
    LET used_expire_before == now_ - ttl_seconds
        kept == {h \in DOMAIN uh.used : uh.used[h] > used_expire_before}
    IN  [used |-> [h \in kept |-> uh.used[h]], last_cleanup |-> now_]

\* UsedHashSet._cleanup
UsedCleanup(uh, now_) ==
    LET used_expire_before == now_ - ttl_seconds
        kept == {h \in DOMAIN uh.used : uh.used[h] >= used_expire_before}
    IN  [used |-> [h \in kept |-> uh.used[h]], last_cleanup |-> now_]

\* UsedHashSet._maybe_cleanup
UsedMaybeCleanup(uh, now_) ==
    IF now_ - uh.last_cleanup >= cleanup_interval_seconds
    THEN UsedCleanup(uh, now_)
    ELSE uh

\* UsedHashSet.is_used: the set after the call and the returned value
is_used(uh, payment_hash, now_) ==
    LET h == Lower(payment_hash)
        swept == UsedMaybeCleanup(uh, now_)
    IN  IF h = <<>> THEN [uh |-> uh, ret |-> FALSE]
        ELSE [uh |-> swept, ret |-> h \in DOMAIN swept.used]

mark_used_NotStored(uh, payment_hash, now_) ==
    [uh |-> UsedMaybeCleanup(uh, now_), ret |-> Lower(payment_hash) # <<>>]

\* UsedHashSet.mark_used: the set after the call and the returned value
mark_used(uh, payment_hash, now_) ==
    LET h == Lower(payment_hash)
        swept == UsedMaybeCleanup(uh, now_)
    IN  IF h = <<>> THEN [uh |-> uh, ret |-> FALSE]
        ELSE IF h \in DOMAIN swept.used THEN [uh |-> swept, ret |-> FALSE]
        ELSE [uh |-> [swept EXCEPT !.used =
                         [k \in DOMAIN swept.used \cup {h} |->
                             IF k = h THEN now_ ELSE swept.used[k]]],
              ret |-> TRUE]

-----------------------------------------------------------------------------
(* State *)

Procs == {"p1", "p2"}
TaskIds == {"t1"}
QuoteIds == {"q1", "q2"}

\* the X-Token of an account is written as the account's id (token_hash is
\* unique); UnknownToken is the token of no account
UnknownToken == "Z"

VARIABLES
    now,              \* time.time(), in seconds since the process started
    used_hashes,      \* UsedHashSet: [used, last_cleanup]
    daily,            \* _daily_counters and _daily_counters_date
    accounts,         \* table accounts: balance_sats by id
    usage_log,        \* table usage_log, a bag of rows
    topup_invoices,   \* table topup_invoices by payment_hash
    hire_tasks,       \* table hire_tasks by id
    hire_quotes,      \* table hire_quotes by id
    hire_deliveries,  \* table hire_deliveries, in insertion order
    hire_messages,    \* table hire_messages, in id order
    locks,            \* the transaction holding each locked row
    procs,            \* the request each connection is serving, and where
    admissions        \* history: the last L402 admission of each payment hash

vars == <<now, used_hashes, daily, accounts, usage_log, topup_invoices,
          hire_tasks, hire_quotes, hire_deliveries,
          hire_messages, locks, procs, admissions>>

AccountRow(a) == <<"accounts", a>>
TaskRow(t) == <<"hire_tasks", t>>
QuoteRow(q) == <<"hire_quotes", q>>

InvoiceRow(h) == <<"topup_invoices", h>>

\* the payment hashes of the top-up invoices
InvoiceHashes == {H1}

LockRows ==
    {AccountRow(a) : a \in AccountIds} \cup {TaskRow(t) : t \in TaskIds}
    \cup {QuoteRow(q) : q \in QuoteIds} \cup {InvoiceRow(h) : h \in InvoiceHashes}

\* a database without row locks
Free_NoRowLocks(r, p) == TRUE

\* a statement of p that needs row r goes on when no other transaction
\* holds it, and waits otherwise
Free(r, p) == locks[r] \in {None, p}

Lock(lk, r, p) == [lk EXCEPT ![r] = p]

\* a commit or rollback that releases no row lock
Release_Nothing(lk, p) == lk

\* commit or rollback: every row lock of p is released
Release(lk, p) == [r \in DOMAIN lk |-> IF lk[r] = p THEN None ELSE lk[r]]

AccountPresent(a) == a \in AccountIds /\ accounts[a].present

\* select id from accounts where token_hash = sha256(token)
AccountByToken(token) == IF AccountPresent(token) THEN token ELSE None

UsageRow(account_id, endpoint, amount_sats) ==
    [account_id |-> account_id, endpoint |-> endpoint, amount_sats |-> amount_sats]

LogUsage(log, account_id, endpoint, amount_sats) ==
    log (+) SetToBag({UsageRow(account_id, endpoint, amount_sats)})

NoMacaroon == [wellformed |-> FALSE, identifier |-> <<>>, caveats |-> <<>>,
               signature |-> HmacChain(ForeignKey, <<>>, <<>>)]

\* the record of a connection: the request (handler, headers, path and body
\* parameters), the position in the handler (pc), the local variables of the
\* running store call, and what the request has done so far
\* the httpx.AsyncClient and the response stream of a streaming proxy call:
\* whether each is open, how often each was closed, the chunks relayed
NoUpstream ==
    [client |-> "none", stream |-> "none", client_closes |-> 0,
     stream_closes |-> 0, chunks |-> 0]

IdleProc ==
    [handler |-> "idle", op |-> "", pc |-> "idle",
     token |-> None, auth |-> "none", macaroon |-> NoMacaroon, preimage |-> <<>>,
     path |-> "", price |-> 0, price_sats |-> 0, task |-> None, quote |-> None, body_ok |-> TRUE,
     account_id |-> None, method |-> "none", l402_amount_sats |-> 0,
     l402_payment_hash |-> <<>>,
     balance |-> 0, amount |-> 0, contractor |-> None, endpoint |-> <<>>,
     result |-> "", resp |-> "",
     challenge |-> NoMacaroon, new_token |-> None,
     forwarded |-> FALSE, debits |-> 0, marks |-> 0, performed |-> FALSE,
     since_id |-> 0, messages |-> <<>>, upstream |-> NoUpstream,
     invoice_sats |-> 0, paid_sats |-> 0,
     gate_time |-> 0]

-----------------------------------------------------------------------------
(* Caller identity and L402 proof on the marketplace endpoints *)

\* what _hire_resolve_auth returns: error is the response when it returns
\* one, and used is the used-hash set after the call
HireAuth(error, account_id, method, l402_amount_sats, l402_payment_hash, used) ==
    [error |-> error, account_id |-> account_id, method |-> method,
     l402_amount_sats |-> l402_amount_sats,
     l402_payment_hash |-> l402_payment_hash, used |-> used]

NoAuth(error, used) == HireAuth(error, None, "none", 0, <<>>, used)

\* server.py _hire_resolve_auth, lines 1176-1207: account_id is what the
\* X-Token resolved to, v the verified macaroon, derived the digest of the
\* preimage, seen the outcome of is_used
ResolveL402(account_id, auth, uh, v, derived, seen) ==
    IF auth = "malformed" THEN NoAuth("401 invalid_l402", uh)
    ELSE IF auth = "L402" THEN
        IF v.error # "" THEN NoAuth("401 invalid_l402", uh)
        ELSE IF ~derived.ok THEN NoAuth("400 invalid_payment", uh)
        ELSE IF canonical_hash(derived.hash) # v.payment_hash
        THEN NoAuth("401 invalid_l402", uh)
        ELSE IF seen.ret THEN NoAuth("400 payment_already_used", seen.uh)
        ELSE HireAuth("",
                 IF account_id # None THEN account_id
                 ELSE IF v.has_account_id /\ v.account_id # <<>>
                 THEN AccountOfText(v.account_id) ELSE None,
                 "l402", v.amount_sats, v.payment_hash, seen.uh)
    ELSE IF account_id # None THEN HireAuth("", account_id, "token", 0, <<>>, uh)
    ELSE NoAuth("", uh)

\* is_used as _hire_resolve_auth calls it
ResolveSeen(account_id, auth, preimage, uh, now_, v) ==
    ResolveL402(account_id, auth, uh, v, hash_from_preimage(preimage),
                is_used(uh, v.payment_hash, now_))

\* server.py _hire_resolve_auth
hire_resolve_auth(token, auth, macaroon, preimage, uh, now_) ==
    IF token # None /\ AccountByToken(token) = None
    THEN NoAuth("401 invalid_token", uh)
    ELSE ResolveSeen(IF token # None THEN AccountByToken(token) ELSE None,
                     auth, preimage, uh, now_, verify_l402_macaroon(macaroon))

\* server.py _hire_consume_l402, m the outcome of mark_used
ConsumeMarked(a, min_sats, m) ==
    IF a.method # "l402" THEN [error |-> "", used |-> a.used, marked |-> FALSE]
    ELSE IF min_sats > 0 /\ a.l402_amount_sats < min_sats
    THEN [error |-> "402 insufficient_payment", used |-> a.used, marked |-> FALSE]
    ELSE IF ~m.ret
    THEN [error |-> "400 payment_already_used", used |-> m.uh, marked |-> FALSE]
    ELSE [error |-> "", used |-> m.uh, marked |-> TRUE]

\* server.py _hire_consume_l402
hire_consume_l402(a, min_sats, now_) ==
    ConsumeMarked(a, min_sats, mark_used(a.used, a.l402_payment_hash, now_))

\* the history of L402 admissions: the time of the last successful
\* mark_used of each payment hash
Admitted(adm, marked, payment_hash, now_) ==
    IF marked
    THEN [h \in DOMAIN adm \cup {payment_hash} |->
             IF h = payment_hash THEN now_ ELSE adm[h]]
    ELSE adm

-----------------------------------------------------------------------------
(* What a handler does with the outcome of the store call it awaited *)

\* the handler returns: its locals are gone, and what stays is what the
\* request was, what it did, and the response
Respond(pr, resp) ==
    [IdleProc EXCEPT !.pc = "done", !.resp = resp, !.handler = pr.handler,
                     !.path = pr.path,
                     !.token = pr.token, !.auth = pr.auth,
                     !.macaroon = pr.macaroon, !.preimage = pr.preimage,
                     !.result = pr.result,
                     !.amount = pr.amount, !.balance = pr.balance,
                     !.challenge = pr.challenge,
                     !.forwarded = pr.forwarded, !.debits = pr.debits,
                     !.marks = pr.marks, !.performed = pr.performed,
                     !.messages = pr.messages, !.paid_sats = pr.paid_sats]

HireErrorResponse(result) ==
    CASE result = "HireNotFound" -> "404 not_found"
      [] result = "HireInvalidState" -> "409 invalid_state"
      [] result = "HireForbidden" -> "403 forbidden"
      [] OTHER -> "400 invalid_request"

GatewayAfterDebit_AlwaysForward(pr) ==
    [pr EXCEPT !.pc = "proxy", !.forwarded = TRUE]

\* server.py create_payment_required, lines 1856-1883
GatewayAfterDebit(pr) ==
    CASE pr.result = "ok" -> [pr EXCEPT !.pc = "proxy", !.forwarded = TRUE]
      [] pr.result = "TopupInvalidToken" -> Respond(pr, "401 invalid_token")
      [] pr.result = "TopupInsufficientBalance" -> Respond(pr, "402 insufficient_balance")
      [] OTHER -> Respond(pr, "500 server_error")

\* server.py hire_accept_quote, lines 1507-1523
AcceptAfterStore(pr) ==
    CASE pr.result = "ok" -> Respond(pr, "200 ok")
      [] pr.result = "HireInsufficientBalance" ->
            [pr EXCEPT !.pc = "invoice", !.price = pr.amount]
      [] OTHER -> Respond(pr, HireErrorResponse(pr.result))

\* server.py hire_collect, lines 1733-1739
CollectAfterDebit(pr) ==
    CASE pr.result = "ok" -> [pr EXCEPT !.pc = "pay"]
      [] pr.result = "HireInsufficientBalance" -> Respond(pr, "402 insufficient_balance")
      [] OTHER -> Respond(pr, "500 server_error")

\* server.py hire_confirm (1688-1698), hire_deliver (1662-1672),
\* hire_create_quote (1475-1485), hire_update_quote (1556-1569)
PlainAfterStore(pr, success) ==
    CASE pr.result = "ok" -> Respond(pr, success)
      [] OTHER -> Respond(pr, HireErrorResponse(pr.result))

\* server.py _hire_require_paid (1307-1322) and what follows it in
\* hire_create_task (1386-1409) and hire_create_quote (1456-1476)
PaidAfterDebit(pr) ==
    CASE pr.result = "ok" ->
            IF ~pr.body_ok THEN Respond(pr, "400 invalid_request")
            ELSE IF pr.handler = "hire_create_task"
            THEN [pr EXCEPT !.op = "create_task", !.pc = "ct_insert"]
            ELSE [pr EXCEPT !.op = "create_quote", !.pc = "cq_read"]
      [] pr.result = "TopupInsufficientBalance" -> [pr EXCEPT !.pc = "invoice"]
      [] OTHER -> Respond(pr, "500 server_error")

\* the handler goes on from the store call it awaited
Return(pr) ==
    CASE pr.handler = "gateway" -> GatewayAfterDebit(pr)
      [] pr.handler = "hire_accept_quote" -> AcceptAfterStore(pr)
      [] pr.handler = "hire_collect" -> CollectAfterDebit(pr)
      [] pr.handler = "hire_confirm" -> PlainAfterStore(pr, "200 ok")
      [] pr.handler = "hire_deliver" -> PlainAfterStore(pr, "201 created")
      [] pr.handler = "hire_update_quote" -> PlainAfterStore(pr, "200 ok")
      [] pr.handler = "hire_send_quote_message" ->
            PlainAfterStore(pr, "201 created")
      [] pr.handler = "hire_get_quote_messages" ->
            PlainAfterStore(pr, "200 ok")
      [] pr.handler = "hire_create_task" ->
            IF pr.op = "debit_token_balance" THEN PaidAfterDebit(pr)
            ELSE IF pr.result = "ok" THEN Respond(pr, "201 created")
            ELSE Respond(pr, "400 hire_error")
      [] pr.handler = "hire_create_quote" ->
            IF pr.op = "debit_token_balance" THEN PaidAfterDebit(pr)
            ELSE PlainAfterStore(pr, "201 created")
      [] OTHER -> Respond(pr, "500 server_error")

Raise(pr, exception) == Return([pr EXCEPT !.result = exception])

-----------------------------------------------------------------------------
(* lib/topup_store.py and lib/hire_store.py: the ledger *)

SetProc(p, pr) == procs' = [procs EXCEPT ![p] = pr]

Debit(acc, a, amount_sats) ==
    [acc EXCEPT ![a].balance_sats = acc[a].balance_sats - amount_sats]

Credit_Nothing(acc, a, amount_sats) == acc

Credit(acc, a, amount_sats) ==
    [acc EXCEPT ![a].balance_sats = acc[a].balance_sats + amount_sats]

\* a ledger that refuses no debit
InsufficientBalance_Never(balance_sats, amount_sats) == FALSE

\* the balance a debit is refused for: balance_sats < amount_sats
InsufficientBalance(balance_sats, amount_sats) == balance_sats < amount_sats

\* SupabaseTopupStore.debit_token_balance, the SELECT .. FOR UPDATE and the
\* balance check
DebitTokenLock(p) ==
    LET pr == procs[p]
        a == AccountByToken(pr.token)
    IN  /\ pr.pc = "dtb_lock"
        /\ a # None => Free(AccountRow(a), p)
        /\ IF a = None
           THEN /\ SetProc(p, Raise(pr, "TopupInvalidToken"))
                /\ UNCHANGED locks
           ELSE IF InsufficientBalance(accounts[a].balance_sats, pr.amount)
           THEN /\ SetProc(p, Raise([pr EXCEPT !.balance = accounts[a].balance_sats],
                                    "TopupInsufficientBalance"))
                /\ UNCHANGED locks
           ELSE /\ SetProc(p, [pr EXCEPT !.pc = "dtb_commit", !.account_id = a])
                /\ locks' = Lock(locks, AccountRow(a), p)
        /\ UNCHANGED <<now, used_hashes, daily, accounts, usage_log,
                       topup_invoices, hire_tasks, hire_quotes, hire_deliveries,
                       hire_messages,
                       admissions>>

\* SupabaseTopupStore.debit_token_balance, the UPDATE, the usage_log INSERT
\* and the commit
DebitTokenCommit(p) ==
    LET pr == procs[p]
    IN  /\ pr.pc = "dtb_commit"
        /\ accounts' = Debit(accounts, pr.account_id, pr.amount)
        /\ usage_log' = LogUsage(usage_log, pr.account_id, pr.endpoint, pr.amount)
        /\ locks' = Release(locks, p)
        /\ SetProc(p, Return([pr EXCEPT !.result = "ok", !.debits = pr.debits + 1]))
        /\ UNCHANGED <<now, used_hashes, daily, topup_invoices, hire_tasks,
                       hire_quotes, hire_deliveries, hire_messages, admissions>>

\* HireStore.debit_account, the SELECT .. FOR UPDATE and the balance check
DebitAccountLock(p) ==
    LET pr == procs[p]
        a == pr.account_id
    IN  /\ pr.pc = "da_lock"
        /\ AccountPresent(a) => Free(AccountRow(a), p)
        /\ IF ~AccountPresent(a)
           THEN /\ SetProc(p, Raise(pr, "HireNotFound"))
                /\ UNCHANGED locks
           ELSE IF InsufficientBalance(accounts[a].balance_sats, pr.amount)
           THEN /\ SetProc(p, Raise([pr EXCEPT !.balance = accounts[a].balance_sats],
                                    "HireInsufficientBalance"))
                /\ UNCHANGED locks
           ELSE /\ SetProc(p, [pr EXCEPT !.pc = "da_commit",
                                         !.balance = accounts[a].balance_sats])
                /\ locks' = Lock(locks, AccountRow(a), p)
        /\ UNCHANGED <<now, used_hashes, daily, accounts, usage_log,
                       topup_invoices, hire_tasks, hire_quotes, hire_deliveries,
                       hire_messages,
                       admissions>>

\* HireStore.debit_account, the UPDATE, the usage_log INSERT and the commit
DebitAccountCommit(p) ==
    LET pr == procs[p]
    IN  /\ pr.pc = "da_commit"
        /\ accounts' = Debit(accounts, pr.account_id, pr.amount)
        /\ usage_log' = LogUsage(usage_log, pr.account_id, pr.endpoint, pr.amount)
        /\ locks' = Release(locks, p)
        /\ SetProc(p, Return([pr EXCEPT !.result = "ok", !.debits = pr.debits + 1]))
        /\ UNCHANGED <<now, used_hashes, daily, topup_invoices, hire_tasks,
                       hire_quotes, hire_deliveries, hire_messages, admissions>>

-----------------------------------------------------------------------------
(* lib/hire_store.py: tasks, quotes, deliveries *)

TaskPresent(t) == t \in TaskIds /\ hire_tasks[t].status # "absent"

QuotePresent(q) == q \in QuoteIds /\ hire_quotes[q].status # "absent"

\* select .. from hire_quotes where task_id = t and status = st
QuotesOf(quotes, t, st) ==
    {q \in QuoteIds : quotes[q].task_id = t /\ quotes[q].status = st}

\* the value server.py passes for skip_debit (it passes none: the default)
AcceptSkipDebit == FALSE

EscrowLock(t) == <<"hire:escrow_lock", t>>
EscrowRelease(t) == <<"hire:escrow_release", t>>

\* HireStore.create_task: one INSERT; the foreign key to accounts takes a
\* key-share lock on the buyer's row
CreateTaskInsert(p) ==
    LET pr == procs[p]
        free == {t \in TaskIds : hire_tasks[t].status = "absent"}
        t == CHOOSE x \in free : TRUE
    IN  /\ pr.pc = "ct_insert"
        /\ free # {}
        /\ AccountPresent(pr.account_id) => Free(AccountRow(pr.account_id), p)
        /\ IF ~AccountPresent(pr.account_id)
           THEN /\ SetProc(p, Respond(pr, "500 server_error"))
                /\ UNCHANGED hire_tasks
           ELSE /\ hire_tasks' = [hire_tasks EXCEPT ![t] =
                       [status |-> "open", buyer_account_id |-> pr.account_id]]
                /\ SetProc(p, Return([pr EXCEPT !.result = "ok", !.task = t,
                                                !.performed = TRUE]))
        /\ UNCHANGED <<now, used_hashes, daily, accounts, usage_log,
                       topup_invoices, hire_quotes, hire_deliveries,
                       hire_messages, locks,
                       admissions>>

\* HireStore.create_quote, the SELECT of the task (no lock, no transaction)
CreateQuoteRead(p) ==
    LET pr == procs[p]
        t == pr.task
    IN  /\ pr.pc = "cq_read"
        /\ SetProc(p,
              IF ~TaskPresent(t) THEN Raise(pr, "HireNotFound")
              ELSE IF hire_tasks[t].status # "open" THEN Raise(pr, "HireInvalidState")
              ELSE IF hire_tasks[t].buyer_account_id = pr.account_id
              THEN Raise(pr, "HireForbidden")
              ELSE [pr EXCEPT !.pc = "cq_insert"])
        /\ UNCHANGED <<now, used_hashes, daily, accounts, usage_log,
                       topup_invoices, hire_tasks, hire_quotes, hire_deliveries,
                       hire_messages,
                       locks, admissions>>

\* HireStore.create_quote, the INSERT; its foreign keys take key-share locks
\* on the task's row and on the contractor's row
CreateQuoteInsert(p) ==
    LET pr == procs[p]
        free == {q \in QuoteIds : hire_quotes[q].status = "absent"}
        q == CHOOSE x \in free : TRUE
    IN  /\ pr.pc = "cq_insert"
        /\ free # {}
        /\ AccountPresent(pr.account_id)
        /\ Free(TaskRow(pr.task), p)
        /\ Free(AccountRow(pr.account_id), p)
        /\ hire_quotes' = [hire_quotes EXCEPT ![q] =
               [status |-> "pending", task_id |-> pr.task,
                contractor_account_id |-> pr.account_id,
                price_sats |-> pr.price_sats]]
        /\ SetProc(p, Return([pr EXCEPT !.result = "ok", !.quote = q,
                                        !.performed = TRUE]))
        /\ UNCHANGED <<now, used_hashes, daily, accounts, usage_log,
                       topup_invoices, hire_tasks, hire_deliveries,
                       hire_messages, locks,
                       admissions>>

\* HireStore.update_quote, the SELECT of the quote (no lock, no transaction)
UpdateQuoteRead(p) ==
    LET pr == procs[p]
        q == pr.quote
    IN  /\ pr.pc = "uq_read"
        /\ SetProc(p,
              IF ~(QuotePresent(q) /\ hire_quotes[q].task_id = pr.task)
              THEN Raise(pr, "HireNotFound")
              ELSE IF hire_quotes[q].contractor_account_id # pr.account_id
              THEN Raise(pr, "HireForbidden")
              ELSE IF hire_quotes[q].status # "pending"
              THEN Raise(pr, "HireInvalidState")
              ELSE [pr EXCEPT !.pc = "uq_update"])
        /\ UNCHANGED <<now, used_hashes, daily, accounts, usage_log,
                       topup_invoices, hire_tasks, hire_quotes, hire_deliveries,
                       hire_messages,
                       locks, admissions>>

\* the row after "update hire_quotes set price_sats = .., updated_at = now()"
UpdatedQuote_Reopened(row, price_sats) ==
    [row EXCEPT !.price_sats = price_sats, !.status = "pending"]

UpdatedQuote(row, price_sats) == [row EXCEPT !.price_sats = price_sats]

\* HireStore.update_quote, the UPDATE .. where id = $n
UpdateQuoteWrite(p) ==
    LET pr == procs[p]
    IN  /\ pr.pc = "uq_update"
        /\ Free(QuoteRow(pr.quote), p)
        /\ hire_quotes' = [hire_quotes EXCEPT ![pr.quote] = UpdatedQuote(@, pr.price_sats)]
        /\ SetProc(p, Return([pr EXCEPT !.result = "ok", !.performed = TRUE]))
        /\ UNCHANGED <<now, used_hashes, daily, accounts, usage_log,
                       topup_invoices, hire_tasks, hire_deliveries,
                       hire_messages, locks,
                       admissions>>

\* an accept_quote that does not look at the status of the task
TaskOpen_Unchecked(status) == TRUE

\* HireStore.accept_quote: the task can be accepted on
TaskOpen(status) == status = "open"

\* a confirm_delivery that does not look at the status of the task
TaskDelivered_Unchecked(status) == TRUE

TaskDelivered_OrInEscrow(status) == status \in {"in_escrow", "delivered"}

\* HireStore.confirm_delivery: the task can be confirmed
TaskDelivered(status) == status = "delivered"

\* HireStore.accept_quote, "Lock the task row" and its checks
AcceptLockTask(p) ==
    LET pr == procs[p]
        t == pr.task
    IN  /\ pr.pc = "aq_task"
        /\ TaskPresent(t) => Free(TaskRow(t), p)
        /\ IF ~TaskPresent(t)
           THEN SetProc(p, Raise(pr, "HireNotFound")) /\ UNCHANGED locks
           ELSE IF ~TaskOpen(hire_tasks[t].status)
           THEN SetProc(p, Raise(pr, "HireInvalidState")) /\ UNCHANGED locks
           ELSE IF hire_tasks[t].buyer_account_id # pr.account_id
           THEN SetProc(p, Raise(pr, "HireForbidden")) /\ UNCHANGED locks
           ELSE /\ SetProc(p, [pr EXCEPT !.pc = "aq_quote"])
                /\ locks' = Lock(locks, TaskRow(t), p)
        /\ UNCHANGED <<now, used_hashes, daily, accounts, usage_log,
                       topup_invoices, hire_tasks, hire_quotes, hire_deliveries,
                       hire_messages,
                       admissions>>

\* HireStore.accept_quote, "Get the quote" (FOR UPDATE) and its checks
AcceptLockQuote(p) ==
    LET pr == procs[p]
        q == pr.quote
        found == QuotePresent(q) /\ hire_quotes[q].task_id = pr.task
    IN  /\ pr.pc = "aq_quote"
        /\ found => Free(QuoteRow(q), p)
        /\ IF ~found
           THEN SetProc(p, Raise(pr, "HireNotFound")) /\ locks' = Release(locks, p)
           ELSE IF hire_quotes[q].status # "pending"
           THEN SetProc(p, Raise(pr, "HireInvalidState")) /\ locks' = Release(locks, p)
           ELSE /\ SetProc(p, [pr EXCEPT !.amount = hire_quotes[q].price_sats,
                                         !.pc = IF AcceptSkipDebit THEN "aq_commit"
                                                ELSE "aq_account"])
                /\ locks' = Lock(locks, QuoteRow(q), p)
        /\ UNCHANGED <<now, used_hashes, daily, accounts, usage_log,
                       topup_invoices, hire_tasks, hire_quotes, hire_deliveries,
                       hire_messages,
                       admissions>>

\* an accept_quote that debits the buyer before it checks the balance, and
\* keeps the debit when it raises
AcceptLockAccount_DebitFirst(p) ==
    LET pr == procs[p]
        a == pr.account_id
    IN  /\ pr.pc = "aq_account"
        /\ AccountPresent(a)
        /\ Free(AccountRow(a), p)
        /\ accounts' = Debit(accounts, a, pr.amount)
        /\ IF InsufficientBalance(accounts[a].balance_sats, pr.amount)
           THEN /\ SetProc(p, Raise([pr EXCEPT !.balance = accounts[a].balance_sats],
                                    "HireInsufficientBalance"))
                /\ locks' = Release(locks, p)
           ELSE /\ SetProc(p, [pr EXCEPT !.pc = "aq_commit", !.amount = 0])
                /\ locks' = Lock(locks, AccountRow(a), p)
        /\ UNCHANGED <<now, used_hashes, daily, usage_log, topup_invoices,
                       hire_tasks, hire_quotes, hire_deliveries,
                       hire_messages, admissions>>

\* HireStore.accept_quote, "Bearer flow: lock buyer account and check balance"
AcceptLockAccount(p) ==
    LET pr == procs[p]
        a == pr.account_id
    IN  /\ pr.pc = "aq_account"
        /\ AccountPresent(a) => Free(AccountRow(a), p)
        /\ IF ~AccountPresent(a)
           THEN SetProc(p, Raise(pr, "HireNotFound")) /\ locks' = Release(locks, p)
           ELSE IF InsufficientBalance(accounts[a].balance_sats, pr.amount)
           THEN /\ SetProc(p, Raise([pr EXCEPT !.balance = accounts[a].balance_sats],
                                    "HireInsufficientBalance"))
                /\ locks' = Release(locks, p)
           ELSE /\ SetProc(p, [pr EXCEPT !.pc = "aq_commit"])
                /\ locks' = Lock(locks, AccountRow(a), p)
        /\ UNCHANGED <<now, used_hashes, daily, accounts, usage_log,
                       topup_invoices, hire_tasks, hire_quotes, hire_deliveries,
                       hire_messages,
                       admissions>>

\* an accept_quote that leaves the other pending quotes as they are
AcceptedAndRejected_NoneRejected(quotes, t, q) ==
    [quotes EXCEPT ![q].status = "accepted"]

\* the quotes of task t after "Accept this quote, reject others"
AcceptedAndRejected(quotes, t, q) ==
    [x \in QuoteIds |->
        IF x = q THEN [quotes[x] EXCEPT !.status = "accepted"]
        ELSE IF quotes[x].task_id = t /\ quotes[x].status = "pending"
        THEN [quotes[x] EXCEPT !.status = "rejected"]
        ELSE quotes[x]]

\* HireStore.accept_quote, from "Debit buyer" to the commit
AcceptCommit(p) ==
    LET pr == procs[p]
        t == pr.task
        q == pr.quote
        a == pr.account_id
    IN  /\ pr.pc = "aq_commit"
        /\ Free(AccountRow(a), p)
        /\ \A x \in QuotesOf(hire_quotes, t, "pending") : Free(QuoteRow(x), p)
        /\ accounts' = IF AcceptSkipDebit THEN accounts ELSE Debit(accounts, a, pr.amount)
        /\ usage_log' = LogUsage(usage_log, a, EscrowLock(t), pr.amount)
        /\ hire_quotes' = AcceptedAndRejected(hire_quotes, t, q)
        /\ hire_tasks' = [hire_tasks EXCEPT ![t].status = "in_escrow"]
        /\ locks' = Release(locks, p)
        /\ SetProc(p, Return([pr EXCEPT !.result = "ok", !.performed = TRUE,
                        !.debits = IF AcceptSkipDebit THEN pr.debits ELSE pr.debits + 1]))
        /\ UNCHANGED <<now, used_hashes, daily, topup_invoices,
                       hire_deliveries, hire_messages, admissions>>

\* HireStore.create_delivery, the SELECT .. FOR UPDATE of the task
DeliverLockTask(p) ==
    LET pr == procs[p]
        t == pr.task
    IN  /\ pr.pc = "dl_task"
        /\ TaskPresent(t) => Free(TaskRow(t), p)
        /\ IF ~TaskPresent(t)
           THEN SetProc(p, Raise(pr, "HireNotFound")) /\ UNCHANGED locks
           ELSE IF hire_tasks[t].status # "in_escrow"
           THEN SetProc(p, Raise(pr, "HireInvalidState")) /\ UNCHANGED locks
           ELSE /\ SetProc(p, [pr EXCEPT !.pc = "dl_commit"])
                /\ locks' = Lock(locks, TaskRow(t), p)
        /\ UNCHANGED <<now, used_hashes, daily, accounts, usage_log,
                       topup_invoices, hire_tasks, hire_quotes, hire_deliveries,
                       hire_messages,
                       admissions>>

\* the quotes of task t by contractor c, whatever their status
AcceptedQuotesBy_AnyStatus(t, c) ==
    {q \in QuoteIds : /\ hire_quotes[q].status # "absent"
                      /\ hire_quotes[q].task_id = t
                      /\ hire_quotes[q].contractor_account_id = c}

\* the accepted quotes of task t by contractor c
AcceptedQuotesBy(t, c) ==
    {q \in QuotesOf(hire_quotes, t, "accepted") :
        hire_quotes[q].contractor_account_id = c}

\* HireStore.create_delivery, "Find the accepted quote for this contractor"
\* (HireForbidden when there is none; fetchrow returns one of the matching
\* rows), the INSERT, "Move task to delivered" and the commit
DeliverCommit(p) ==
    LET pr == procs[p]
        t == pr.task
    IN  /\ pr.pc = "dl_commit"
        /\ IF AcceptedQuotesBy(t, pr.account_id) = {}
           THEN /\ SetProc(p, Raise(pr, "HireForbidden"))
                /\ UNCHANGED <<hire_deliveries, hire_tasks>>
           ELSE /\ \E q \in AcceptedQuotesBy(t, pr.account_id) :
                      /\ Free(QuoteRow(q), p)
                      /\ Free(AccountRow(pr.account_id), p)
                      /\ hire_deliveries' = Append(hire_deliveries,
                             [task_id |-> t, quote_id |-> q,
                              contractor_account_id |-> pr.account_id])
                      /\ SetProc(p, Return([pr EXCEPT !.result = "ok", !.quote = q,
                                                      !.performed = TRUE]))
                /\ hire_tasks' = [hire_tasks EXCEPT ![t].status = "delivered"]
        /\ locks' = Release(locks, p)
        /\ UNCHANGED <<now, used_hashes, daily, accounts, usage_log,
                       topup_invoices, hire_quotes, hire_messages, admissions>>

\* HireStore.confirm_delivery, the SELECT .. FOR UPDATE of the task
ConfirmLockTask(p) ==
    LET pr == procs[p]
        t == pr.task
    IN  /\ pr.pc = "cd_task"
        /\ TaskPresent(t) => Free(TaskRow(t), p)
        /\ IF ~TaskPresent(t)
           THEN SetProc(p, Raise(pr, "HireNotFound")) /\ UNCHANGED locks
           ELSE IF ~TaskDelivered(hire_tasks[t].status)
           THEN SetProc(p, Raise(pr, "HireInvalidState")) /\ UNCHANGED locks
           ELSE IF hire_tasks[t].buyer_account_id # pr.account_id
           THEN SetProc(p, Raise(pr, "HireForbidden")) /\ UNCHANGED locks
           ELSE /\ SetProc(p, [pr EXCEPT !.pc = "cd_quote"])
                /\ locks' = Lock(locks, TaskRow(t), p)
        /\ UNCHANGED <<now, used_hashes, daily, accounts, usage_log,
                       topup_invoices, hire_tasks, hire_quotes, hire_deliveries,
                       hire_messages,
                       admissions>>

\* HireStore.confirm_delivery, "Find accepted quote to get contractor + price"
\* (no lock; fetchrow returns one of the matching rows; HireInvalidState when
\* there is none)
ConfirmReadQuote(p) ==
    LET pr == procs[p]
    IN  /\ pr.pc = "cd_quote"
        /\ IF QuotesOf(hire_quotes, pr.task, "accepted") = {}
           THEN /\ SetProc(p, Raise(pr, "HireInvalidState"))
                /\ locks' = Release(locks, p)
           ELSE /\ \E q \in QuotesOf(hire_quotes, pr.task, "accepted") :
                      SetProc(p, [pr EXCEPT !.pc = "cd_commit", !.quote = q,
                                    !.amount = hire_quotes[q].price_sats,
                                    !.contractor = hire_quotes[q].contractor_account_id])
                /\ UNCHANGED locks
        /\ UNCHANGED <<now, used_hashes, daily, accounts, usage_log,
                       topup_invoices, hire_tasks, hire_quotes, hire_deliveries,
                       hire_messages,
                       admissions>>

\* a release that credits the caller of confirm_delivery
ReleaseTo_Caller(pr) == pr.account_id

\* the account credited by confirm_delivery
ReleaseTo(pr) == pr.contractor

\* HireStore.confirm_delivery, "Credit contractor", "Log the escrow release",
\* "Mark task completed" and the commit
ConfirmCommit(p) ==
    LET pr == procs[p]
        t == pr.task
        c == ReleaseTo(pr)
    IN  /\ pr.pc = "cd_commit"
        /\ Free(AccountRow(c), p)
        /\ accounts' = Credit(accounts, c, pr.amount)
        /\ usage_log' = LogUsage(usage_log, c, EscrowRelease(t), pr.amount)
        /\ hire_tasks' = [hire_tasks EXCEPT ![t].status = "completed"]
        /\ locks' = Release(locks, p)
        /\ SetProc(p, Return([pr EXCEPT !.result = "ok", !.performed = TRUE]))
        /\ UNCHANGED <<now, used_hashes, daily, topup_invoices, hire_quotes,
                       hire_deliveries, hire_messages, admissions>>

\* lib/phoenix.py pay_invoice: POST /payinvoice with the invoice alone; what
\* the node pays is the amount of the invoice
PaidBy(invoice_sats, amount_sats) == invoice_sats

\* server.py hire_collect, "Pay the LN invoice": phoenix_client.pay_invoice
\* returns, or raises PhoenixError
CollectPay(p) ==
    LET pr == procs[p]
    IN  /\ pr.pc = "pay"
        /\ \E paid \in BOOLEAN :
              SetProc(p, IF paid
                         THEN Respond([pr EXCEPT !.paid_sats =
                                          PaidBy(pr.invoice_sats, pr.amount)],
                                      "200 paid")
                         ELSE [pr EXCEPT !.pc = "refund"])
        /\ UNCHANGED <<now, used_hashes, daily, accounts, usage_log,
                       topup_invoices, hire_tasks, hire_quotes, hire_deliveries,
                       hire_messages,
                       locks, admissions>>

\* a refund that credits twice the amount
Refunded_Twice(acc, a, amount_sats) == Credit(acc, a, 2 * amount_sats)

\* store.credit_account(auth.account_id, amount_sats) of hire_collect
Refunded(acc, a, amount_sats) == Credit(acc, a, amount_sats)

\* server.py hire_collect, "Refund on failure": HireStore.credit_account, one
\* UPDATE outside any transaction, inside try .. except Exception: pass;
\* outcomes are the ways the call can end: it returns (TRUE) or it raises
\* (FALSE) and the handler goes on to the same 502
CollectRefund(p, outcomes) ==
    LET pr == procs[p]
    IN  /\ pr.pc = "refund"
        /\ Free(AccountRow(pr.account_id), p)
        /\ \E credited \in outcomes :
              IF credited
              THEN /\ accounts' = Refunded(accounts, pr.account_id, pr.amount)
                   /\ SetProc(p, Respond(pr, "502 payment_failed"))
              ELSE /\ UNCHANGED accounts
                   /\ SetProc(p, Respond([pr EXCEPT !.result = "Exception"],
                                         "502 payment_failed"))
        /\ UNCHANGED <<now, used_hashes, daily, usage_log, topup_invoices,
                       hire_tasks, hire_quotes, hire_deliveries,
                       hire_messages, locks, admissions>>

-----------------------------------------------------------------------------
(* server.py: the wall clock, the daily cap, the background cleanup *)

\* the instants at which the clock is read: the first moment at which a
\* cleanup is due, that moment plus the TTL, and one second later
Instants ==
    {i \in {cleanup_interval_seconds + d :
              d \in {0, ttl_seconds, ttl_seconds + 1}} : i <= MaxTime}

\* time passes
Tick ==
    /\ \E i \in Instants : i > now /\ now' = i
    /\ UNCHANGED <<used_hashes, daily, accounts, usage_log, topup_invoices,
                   hire_tasks, hire_quotes, hire_deliveries,
                   hire_messages, locks, procs,
                   admissions>>

\* server.py _cleanup_worker: the sleep ends and used_hashes.cleanup() runs
CleanupWorker ==
    /\ used_hashes' = UsedCleanup(used_hashes, now)
    /\ UNCHANGED <<now, daily, accounts, usage_log, topup_invoices, hire_tasks,
                   hire_quotes, hire_deliveries,
                   hire_messages, locks, procs, admissions>>

ChatPath == "/v1/chat/completions"
VideoPath == "/v1/video/generations"
ImagePaths == {"/v1/images/generations", "/v1/images/edits", "/v1/images/variations"}

Paths == {ChatPath, VideoPath}

\* server.py DAILY_RATE_LIMITS.get(path, DAILY_RATE_LIMITS["_default"])
DailyLimit(path) ==
    IF path = VideoPath THEN 10 ELSE IF path \in ImagePaths THEN 200 ELSE 1000

\* datetime.now(timezone.utc).strftime("%Y-%m-%d"), as the number of the day
Today(now_) == now_ \div 86400

\* a _check_daily_limit that keeps the counters of the day before
check_daily_limit_NoReset(d, normalized_path, now_) ==
    LET count == d.counters[normalized_path]
    IN  IF count >= DailyLimit(normalized_path)
        THEN [daily |-> d, limited |-> TRUE]
        ELSE [daily |-> [d EXCEPT !.counters[normalized_path] = count + 1],
              limited |-> FALSE]

\* server.py _check_daily_limit: the counters after the call, and whether
\* it returned the error message
check_daily_limit(d, normalized_path, now_) ==
    LET today == Today(now_)
        d1 == IF today # d.date
              THEN [date |-> today, counters |-> [x \in Paths |-> 0]]
              ELSE d
        count == d1.counters[normalized_path]
    IN  IF count >= DailyLimit(normalized_path)
        THEN [daily |-> d1, limited |-> TRUE]
        ELSE [daily |-> [d1 EXCEPT !.counters[normalized_path] = count + 1],
              limited |-> FALSE]

-----------------------------------------------------------------------------
(* server.py: the gateway handler create_payment_required *)

NewRequest(handler, h) ==
    [IdleProc EXCEPT !.handler = handler, !.token = h.token, !.auth = h.auth,
                     !.macaroon = h.macaroon, !.preimage = h.preimage,
                     !.gate_time = now]

Ready(p) == procs[p].pc \in {"idle", "done"}

\* the L402 branch of create_payment_required (lines 1885-1927) with v the
\* verified macaroon, derived the digest of the preimage, seen and m the
\* outcomes of is_used and mark_used: the response or the forward, the
\* used-hash set after it, and whether the hash was marked
GatewayL402Steps(pr, uh, v, derived, seen, m) ==
    IF pr.auth = "malformed" \/ v.error # ""
    THEN [pr |-> Respond(pr, "401 invalid_l402"), used |-> uh, marked |-> FALSE]
    ELSE IF ~derived.ok
    THEN [pr |-> Respond(pr, "400 invalid_payment"), used |-> uh, marked |-> FALSE]
    ELSE IF canonical_hash(derived.hash) # v.payment_hash
    THEN [pr |-> Respond(pr, "401 invalid_l402"), used |-> uh, marked |-> FALSE]
    ELSE IF seen.ret
    THEN [pr |-> Respond(pr, "400 payment_already_used"), used |-> seen.uh,
          marked |-> FALSE]
    ELSE IF pr.amount > v.amount_sats
    THEN [pr |-> Respond(pr, "402 insufficient_payment"), used |-> seen.uh,
          marked |-> FALSE]
    ELSE IF ~m.ret
    THEN [pr |-> Respond(pr, "400 payment_already_used"), used |-> m.uh,
          marked |-> FALSE]
    ELSE [pr |-> [pr EXCEPT !.pc = "proxy", !.forwarded = TRUE, !.marks = 1,
                            !.method = "l402",
                            !.l402_amount_sats = v.amount_sats,
                            !.l402_payment_hash = v.payment_hash],
          used |-> m.uh, marked |-> TRUE]

GatewayL402Seen(pr, uh, now_, v, seen) ==
    GatewayL402Steps(pr, uh, v, hash_from_preimage(pr.preimage), seen,
                     mark_used(seen.uh, v.payment_hash, now_))

GatewayL402Verified(pr, uh, now_, v) ==
    GatewayL402Seen(pr, uh, now_, v, is_used(uh, v.payment_hash, now_))

GatewayL402(pr, uh, now_) ==
    GatewayL402Verified(pr, uh, now_, verify_l402_macaroon(pr.macaroon))

\* create_payment_required from the validation of the request to its first
\* await after the body is read: price, daily cap, and the branch on the
\* headers; d is the outcome of _check_daily_limit, g of the L402 branch
GatewaySteps(p, pr, d, g) ==
    IF ~pr.body_ok
    THEN /\ SetProc(p, Respond(pr, "400 invalid_request"))
         /\ UNCHANGED <<daily, used_hashes, admissions>>
    ELSE IF d.limited
    THEN /\ SetProc(p, Respond(pr, "429 daily_limit_reached"))
         /\ daily' = d.daily
         /\ UNCHANGED <<used_hashes, admissions>>
    ELSE IF pr.token # None
    THEN /\ SetProc(p, [pr EXCEPT !.pc = "dtb_lock",
                                  !.op = "debit_token_balance"])
         /\ daily' = d.daily
         /\ UNCHANGED <<used_hashes, admissions>>
    ELSE IF pr.auth # "none"
    THEN /\ SetProc(p, g.pr)
         /\ daily' = d.daily
         /\ used_hashes' = g.used
         /\ admissions' = Admitted(admissions, g.marked,
                                   g.pr.l402_payment_hash, now)
    ELSE /\ SetProc(p, [pr EXCEPT !.pc = "invoice"])
         /\ daily' = d.daily
         /\ UNCHANGED <<used_hashes, admissions>>

GatewayRequest(p, pr) ==
    GatewaySteps(p, pr, check_daily_limit(daily, pr.path, now),
                 GatewayL402(pr, used_hashes, now))

\* POST /api/v1/{api_name}/{endpoint_path}, for the endpoint paths in paths
GatewayOn(p, R, paths) ==
    /\ Ready(p)
    /\ \E h \in R, path \in paths :
          GatewayRequest(p, [NewRequest("gateway", h) EXCEPT
                        !.path = path, !.price = h.price, !.amount = h.price,
                        !.body_ok = h.body_ok, !.endpoint = <<"openai", path>>])
    /\ UNCHANGED <<now, accounts, usage_log, topup_invoices, hire_tasks,
                   hire_quotes, hire_deliveries, hire_messages, locks>>

\* POST /api/v1/openai/v1/chat/completions
Gateway(p, R) == GatewayOn(p, R, {ChatPath})

\* server.py _proxy_upstream: the upstream answers, or fails
ProxyUpstream(p) ==
    LET pr == procs[p]
    IN  /\ pr.pc = "proxy"
        /\ \E ok \in BOOLEAN :
              SetProc(p, Respond(pr, IF ok THEN "200 upstream" ELSE "502 upstream_error"))
        /\ UNCHANGED <<now, used_hashes, daily, accounts, usage_log, topup_invoices,
                       hire_tasks, hire_quotes, hire_deliveries,
                       hire_messages, locks, admissions>>

\* what phoenix_client.create_invoice can come back with: PhoenixError, or an
\* invoice with its paymentHash
PhoenixError == [ok |-> FALSE, paymentHash |-> <<>>]
PhoenixInvoice(paymentHash) == [ok |-> TRUE, paymentHash |-> paymentHash]

\* max(price_sats, 1) of _hire_402_challenge; the gateway uses the price
InvoiceAmount_One(pr) == 1

InvoiceAmount(pr) ==
    IF pr.handler = "gateway" THEN pr.price
    ELSE IF pr.price > 1 THEN pr.price ELSE 1

\* the 402 challenge: create_payment_required lines 1929-1962 and
\* _hire_402_challenge
Challenge(p, invoices) ==
    LET pr == procs[p]
    IN  /\ pr.pc = "invoice"
        /\ \E inv \in invoices :
              LET payment_hash == canonical_hash(inv.paymentHash)
                  acct == IF pr.handler = "gateway" THEN None ELSE pr.account_id
              IN  SetProc(p,
                    IF ~inv.ok \/ payment_hash = <<>>
                    THEN Respond(pr, "503 phoenix_unavailable")
                    ELSE Respond([pr EXCEPT !.challenge =
                                     create_l402_macaroon(payment_hash,
                                                          InvoiceAmount(pr), acct)],
                                 "402 payment_required"))
        /\ UNCHANGED <<now, used_hashes, daily, accounts, usage_log, topup_invoices,
                       hire_tasks, hire_quotes, hire_deliveries,
                       hire_messages, locks, admissions>>

-----------------------------------------------------------------------------
(* server.py: the marketplace handlers *)

\* the request with what _hire_resolve_auth found
Resolved(pr, a) ==
    [pr EXCEPT !.account_id = a.account_id, !.method = a.method,
               !.l402_amount_sats = a.l402_amount_sats,
               !.l402_payment_hash = a.l402_payment_hash]

\* server.py _hire_require_paid and the lines after it in hire_create_task
\* and hire_create_quote, up to the first await; a is what
\* _hire_resolve_auth returned, c what _hire_consume_l402 did, pr the request
\* with the identity resolved
HirePaidSteps(p, pr0, a, c, pr) ==
    IF a.error # ""
    THEN /\ SetProc(p, Respond(pr0, a.error))
         /\ used_hashes' = a.used
         /\ UNCHANGED admissions
    ELSE IF a.method = "l402"
    THEN /\ used_hashes' = c.used
         /\ admissions' = Admitted(admissions, c.marked, a.l402_payment_hash,
                                   now)
         /\ SetProc(p,
              IF c.error # "" THEN Respond(pr, c.error)
              ELSE IF pr.account_id = None
              THEN Respond([pr EXCEPT !.marks = 1], "401 account_required")
              ELSE IF ~pr.body_ok
              THEN Respond([pr EXCEPT !.marks = 1], "400 invalid_request")
              ELSE IF pr.handler = "hire_create_task"
              THEN [pr EXCEPT !.marks = 1, !.op = "create_task", !.pc = "ct_insert"]
              ELSE [pr EXCEPT !.marks = 1, !.op = "create_quote", !.pc = "cq_read"])
    ELSE /\ SetProc(p,
              IF a.method = "token"
              THEN [pr EXCEPT !.op = "debit_token_balance", !.pc = "dtb_lock"]
              ELSE [pr EXCEPT !.pc = "new_account"])
         /\ UNCHANGED <<used_hashes, admissions>>

HirePaidResolved(p, pr0, a) ==
    HirePaidSteps(p, pr0, a, hire_consume_l402(a, pr0.price, now), Resolved(pr0, a))

HirePaid(p, pr0) ==
    HirePaidResolved(p, pr0,
        hire_resolve_auth(pr0.token, pr0.auth, pr0.macaroon, pr0.preimage,
                          used_hashes, now))

\* POST /api/v1/ai-for-hire/tasks
hire_create_task(p, R, bodies) ==
    /\ Ready(p)
    /\ \E h \in R, ok \in bodies :
          HirePaid(p, [NewRequest("hire_create_task", h) EXCEPT
                          !.price = PostTaskPrice, !.amount = PostTaskPrice,
                          !.endpoint = <<"hire:post_task">>, !.body_ok = ok])
    /\ UNCHANGED <<now, daily, accounts, usage_log, topup_invoices, hire_tasks,
                   hire_quotes, hire_deliveries, hire_messages, locks>>

\* POST /api/v1/ai-for-hire/tasks/{task_id}/quotes
hire_create_quote(p, R, prices) ==
    /\ Ready(p)
    /\ \E h \in R, t \in TaskIds, price_sats \in prices :
          HirePaid(p, [NewRequest("hire_create_quote", h) EXCEPT
                          !.price = PostQuotePrice, !.amount = PostQuotePrice,
                          !.endpoint = <<"hire:post_quote">>, !.task = t,
                          !.body_ok = (price_sats > 0), !.price_sats = price_sats])
    /\ UNCHANGED <<now, daily, accounts, usage_log, topup_invoices, hire_tasks,
                   hire_quotes, hire_deliveries, hire_messages, locks>>

\* _hire_require_paid, "No auth": topup_store.create_account, then the
\* challenge that carries the new account and its token
NewAccount(p) ==
    LET pr == procs[p]
        free == {a \in AccountIds : ~accounts[a].present}
        a == CHOOSE x \in free : TRUE
    IN  /\ pr.pc = "new_account"
        /\ IF free = {}
           THEN /\ SetProc(p, Respond(pr, "503 topup_unavailable"))
                /\ UNCHANGED accounts
           ELSE /\ accounts' = [accounts EXCEPT ![a] = [present |-> TRUE, balance_sats |-> 0]]
                /\ SetProc(p, [pr EXCEPT !.pc = "invoice", !.account_id = a,
                                         !.new_token = a])
        /\ UNCHANGED <<now, used_hashes, daily, usage_log, topup_invoices, hire_tasks,
                       hire_quotes, hire_deliveries,
                       hire_messages, locks, admissions>>

\* _hire_resolve_auth and _hire_require_identity, then the handler's store
\* call at position pc; consume is TRUE in hire_accept_quote only, which
\* calls _hire_consume_l402(auth) before the store
HireIdentifiedSteps(p, pr0, op, pc, consume, a, c, pr) ==
    IF a.error # ""
    THEN /\ SetProc(p, Respond(pr0, a.error))
         /\ used_hashes' = a.used
         /\ UNCHANGED admissions
    ELSE IF a.account_id = None
    THEN /\ SetProc(p, Respond(pr, "401 account_required"))
         /\ used_hashes' = a.used
         /\ UNCHANGED admissions
    ELSE IF consume
    THEN /\ used_hashes' = c.used
         /\ admissions' = Admitted(admissions, c.marked, a.l402_payment_hash,
                                   now)
         /\ SetProc(p, IF c.error # "" THEN Respond(pr, c.error)
                       ELSE [pr EXCEPT !.op = op, !.pc = pc,
                                       !.marks = IF c.marked THEN 1 ELSE 0])
    ELSE /\ used_hashes' = a.used
         /\ UNCHANGED admissions
         /\ SetProc(p, IF ~pr.body_ok THEN Respond(pr, "400 invalid_request")
                       ELSE [pr EXCEPT !.op = op, !.pc = pc])

HireIdentifiedResolved(p, pr0, op, pc, consume, a) ==
    HireIdentifiedSteps(p, pr0, op, pc, consume, a,
                        hire_consume_l402(a, 0, now), Resolved(pr0, a))

HireIdentified(p, pr0, op, pc, consume) ==
    HireIdentifiedResolved(p, pr0, op, pc, consume,
        hire_resolve_auth(pr0.token, pr0.auth, pr0.macaroon, pr0.preimage,
                          used_hashes, now))

\* POST /api/v1/ai-for-hire/tasks/{task_id}/quotes/{quote_id}/accept
hire_accept_quote(p, R) ==
    /\ Ready(p)
    /\ \E h \in R, t \in TaskIds, q \in QuoteIds :
          HireIdentified(p, [NewRequest("hire_accept_quote", h) EXCEPT
                                !.task = t, !.quote = q,
                                !.endpoint = <<"hire:accept">>],
                         "accept_quote", "aq_task", TRUE)
    /\ UNCHANGED <<now, daily, accounts, usage_log, topup_invoices, hire_tasks,
                   hire_quotes, hire_deliveries, hire_messages, locks>>

\* PATCH /api/v1/ai-for-hire/tasks/{task_id}/quotes/{quote_id}
hire_update_quote(p, R, prices) ==
    /\ Ready(p)
    /\ \E h \in R, t \in TaskIds, q \in QuoteIds, price_sats \in prices :
          HireIdentified(p, [NewRequest("hire_update_quote", h) EXCEPT
                                !.task = t, !.quote = q, !.price_sats = price_sats],
                         "update_quote", "uq_read", FALSE)
    /\ UNCHANGED <<now, daily, accounts, usage_log, topup_invoices, hire_tasks,
                   hire_quotes, hire_deliveries, hire_messages, locks>>

\* POST /api/v1/ai-for-hire/tasks/{task_id}/deliver
hire_deliver(p, R) ==
    /\ Ready(p)
    /\ \E h \in R, t \in TaskIds :
          HireIdentified(p, [NewRequest("hire_deliver", h) EXCEPT !.task = t],
                         "create_delivery", "dl_task", FALSE)
    /\ UNCHANGED <<now, daily, accounts, usage_log, topup_invoices, hire_tasks,
                   hire_quotes, hire_deliveries, hire_messages, locks>>

\* POST /api/v1/ai-for-hire/tasks/{task_id}/confirm
hire_confirm(p, R) ==
    /\ Ready(p)
    /\ \E h \in R, t \in TaskIds :
          HireIdentified(p, [NewRequest("hire_confirm", h) EXCEPT !.task = t],
                         "confirm_delivery", "cd_task", FALSE)
    /\ UNCHANGED <<now, daily, accounts, usage_log, topup_invoices, hire_tasks,
                   hire_quotes, hire_deliveries, hire_messages, locks>>

\* POST /api/v1/ai-for-hire/collect
\* with amounts the amount_sats of the body and invoices the amounts of the
\* bolt11 invoice in it
hire_collect_invoice(p, R, amounts, invoices) ==
    /\ Ready(p)
    /\ \A r \in BagToSet(usage_log) :
          r.endpoint = <<"hire:collect">> => usage_log[r] < MaxCollects
    /\ \E h \in R, amount_sats \in amounts, invoice_sats \in invoices :
          HireIdentified(p, [NewRequest("hire_collect", h) EXCEPT
                                !.amount = amount_sats, !.body_ok = (amount_sats > 0),
                                !.invoice_sats = invoice_sats,
                                !.endpoint = <<"hire:collect">>],
                         "debit_account", "da_lock", FALSE)
    /\ UNCHANGED <<now, daily, accounts, usage_log, topup_invoices, hire_tasks,
                   hire_quotes, hire_deliveries, hire_messages, locks>>

hire_collect(p, R, amounts) == hire_collect_invoice(p, R, amounts, amounts)

-----------------------------------------------------------------------------
(* Top-up claim: server.py claim_topup_invoice and                          *)
(* SupabaseTopupStore.claim_topup_invoice                                   *)

InvoicePresent(h) == h \in InvoiceHashes /\ topup_invoices[h].status # "absent"

\* server.py claim_topup_invoice, lines 1083-1128
ClaimAfterStore(pr) ==
    CASE pr.result = "ok" ->
             [Respond(pr, "200 ok") EXCEPT !.new_token = pr.new_token]
      [] pr.result = "TopupInvalidPayment" -> Respond(pr, "400 invalid_payment")
      [] pr.result = "TopupInvoiceAlreadyClaimed" -> Respond(pr, "400 payment_already_used")
      [] pr.result = "TopupInvalidToken" -> Respond(pr, "401 invalid_token")
      [] pr.result = "TopupMissingToken" -> Respond(pr, "400 missing_token")
      [] OTHER -> Respond(pr, "500 server_error")

\* POST /api/v1/topup/claim, up to the store call
claim_topup(p, preimages, tokens) ==
    /\ Ready(p)
    /\ \E preimage \in preimages, token \in tokens :
          LET pr == [IdleProc EXCEPT !.handler = "claim_topup", !.token = token,
                                     !.preimage = preimage, !.gate_time = now]
              derived == hash_from_preimage(preimage)
          IN  SetProc(p, IF ~derived.ok THEN Respond(pr, "400 invalid_payment")
                         ELSE [pr EXCEPT !.op = "claim_topup_invoice",
                                         !.pc = "cl_invoice",
                                         !.l402_payment_hash = canonical_hash(derived.hash)])
    /\ UNCHANGED <<now, used_hashes, daily, accounts, usage_log, topup_invoices,
                   hire_tasks, hire_quotes, hire_deliveries,
                   hire_messages, locks, admissions>>

\* claim_topup_invoice, the SELECT .. FOR UPDATE of the invoice
ClaimLockInvoice(p) ==
    LET pr == procs[p]
        h == pr.l402_payment_hash
    IN  /\ pr.pc = "cl_invoice"
        /\ InvoicePresent(h) => Free(InvoiceRow(h), p)
        /\ IF ~InvoicePresent(h)
           THEN SetProc(p, ClaimAfterStore([pr EXCEPT !.result = "TopupInvalidPayment"]))
                /\ UNCHANGED locks
           ELSE IF topup_invoices[h].status # "pending"
           THEN SetProc(p, ClaimAfterStore([pr EXCEPT !.result = "TopupInvoiceAlreadyClaimed"]))
                /\ UNCHANGED locks
           ELSE /\ SetProc(p, [pr EXCEPT !.pc = "cl_account",
                                         !.amount = topup_invoices[h].amount_sats,
                                         !.contractor = topup_invoices[h].account_id])
                /\ locks' = Lock(locks, InvoiceRow(h), p)
        /\ UNCHANGED <<now, used_hashes, daily, accounts, usage_log, topup_invoices,
                       hire_tasks, hire_quotes, hire_deliveries,
                       hire_messages, admissions>>

AccountMismatch_Ignored(bound, selected) == FALSE

\* claim_topup_invoice, "account_id is not None and account_id !=
\* selected_account_id"
AccountMismatch(bound, selected) == bound # None /\ bound # selected

\* claim_topup_invoice, the account: SELECT .. FOR UPDATE by token, or the
\* refusal of a refill without token, or a new account
ClaimLockAccount(p) ==
    LET pr == procs[p]
        a == AccountByToken(pr.token)
        free == {x \in AccountIds : ~accounts[x].present}
        fail(e) == /\ SetProc(p, ClaimAfterStore([pr EXCEPT !.result = e]))
                   /\ locks' = Release(locks, p)
    IN  /\ pr.pc = "cl_account"
        /\ (pr.token # None /\ a # None) => Free(AccountRow(a), p)
        /\ (pr.token = None /\ pr.contractor = None) => free # {}
        /\ IF pr.token # None
           THEN IF a = None THEN fail("TopupInvalidToken")
                ELSE IF AccountMismatch(pr.contractor, a)
                THEN fail("TopupInvalidPayment")
                ELSE /\ SetProc(p, [pr EXCEPT !.pc = "cl_commit", !.account_id = a])
                     /\ locks' = Lock(locks, AccountRow(a), p)
           ELSE IF pr.contractor # None THEN fail("TopupMissingToken")
           ELSE /\ SetProc(p, [pr EXCEPT !.pc = "cl_commit",
                                         !.account_id = CHOOSE x \in free : TRUE,
                                         !.new_token = CHOOSE x \in free : TRUE])
                /\ locks' = Lock(locks, AccountRow(CHOOSE x \in free : TRUE), p)
        /\ UNCHANGED <<now, used_hashes, daily, accounts, usage_log, topup_invoices,
                       hire_tasks, hire_quotes, hire_deliveries,
                       hire_messages, admissions>>

\* claim_topup_invoice, the INSERT of a new account, the credit, the invoice
\* marked paid, and the commit
ClaimCommit(p) ==
    LET pr == procs[p]
        a == pr.account_id
        h == pr.l402_payment_hash
        opened == [accounts EXCEPT ![a].present = TRUE]
    IN  /\ pr.pc = "cl_commit"
        /\ accounts' = Credit(opened, a, pr.amount)
        /\ topup_invoices' = [topup_invoices EXCEPT ![h].status = "paid",
                                                    ![h].account_id = a]
        /\ locks' = Release(locks, p)
        /\ SetProc(p, ClaimAfterStore([pr EXCEPT !.result = "ok", !.performed = TRUE]))
        /\ UNCHANGED <<now, used_hashes, daily, usage_log, hire_tasks, hire_quotes,
                       hire_deliveries, hire_messages, admissions>>

\* POST /api/v1/topup, up to phoenix_client.create_invoice: the X-Token
\* resolved, amount_sats read from the body
create_topup(p, tokens, amounts) ==
    /\ Ready(p)
    /\ \A a \in AccountIds : accounts[a].balance_sats < MaxTopupBalance
    /\ \E token \in tokens, amount_sats \in amounts :
          LET pr == [IdleProc EXCEPT !.handler = "create_topup", !.token = token,
                                     !.amount = amount_sats, !.gate_time = now]
          IN  SetProc(p,
                IF token # None /\ AccountByToken(token) = None
                THEN Respond(pr, "401 invalid_token")
                ELSE IF amount_sats <= 0
                THEN Respond(pr, "400 invalid_amount")
                ELSE [pr EXCEPT !.pc = "tu_invoice",
                                !.account_id = IF token # None
                                               THEN AccountByToken(token)
                                               ELSE None])
    /\ UNCHANGED <<now, used_hashes, daily, accounts, usage_log, topup_invoices,
                   hire_tasks, hire_quotes, hire_deliveries,
                   hire_messages, locks, admissions>>

\* POST /api/v1/topup, phoenix_client.create_invoice and the payload check
TopupInvoice(p, invoices) ==
    LET pr == procs[p]
    IN  /\ pr.pc = "tu_invoice"
        /\ \E inv \in invoices :
              SetProc(p,
                IF ~inv.ok \/ canonical_hash(inv.paymentHash) = <<>>
                THEN Respond(pr, "503 phoenix_unavailable")
                ELSE [pr EXCEPT !.pc = "tu_store", !.op = "create_topup_invoice",
                                !.l402_payment_hash = canonical_hash(inv.paymentHash)])
        /\ UNCHANGED <<now, used_hashes, daily, accounts, usage_log, topup_invoices,
                       hire_tasks, hire_quotes, hire_deliveries,
                       hire_messages, locks, admissions>>

\* what the upsert of create_topup_invoice leaves in the row
UpsertedInvoice(account_id, amount_sats) ==
    [status |-> "pending", account_id |-> account_id, amount_sats |-> amount_sats]

\* SupabaseTopupStore.create_topup_invoice: INSERT .. ON CONFLICT
\* (payment_hash) DO UPDATE; it waits for a row lock on the invoice and, for
\* the foreign key, on the account
CreateTopupInvoice(p) ==
    LET pr == procs[p]
        h == pr.l402_payment_hash
    IN  /\ pr.pc = "tu_store"
        /\ h \in InvoiceHashes
        /\ Free(InvoiceRow(h), p)
        /\ pr.account_id # None => Free(AccountRow(pr.account_id), p)
        /\ topup_invoices' = [topup_invoices EXCEPT ![h] =
                                 UpsertedInvoice(pr.account_id, pr.amount)]
        /\ SetProc(p, Respond([pr EXCEPT !.result = "ok", !.performed = TRUE],
                              "402 payment_required"))
        /\ UNCHANGED <<now, used_hashes, daily, accounts, usage_log, hire_tasks,
                       hire_quotes, hire_deliveries,
                       hire_messages, locks, admissions>>

-----------------------------------------------------------------------------
(* Specifications *)

NoHeaders == [token |-> None, auth |-> "none", macaroon |-> NoMacaroon,
              preimage |-> <<>>]

\* a request that carries the X-Token of account a and nothing else
TokenOf(a) == [NoHeaders EXCEPT !.token = a]

AbsentTask == [status |-> "absent", buyer_account_id |-> None]
AbsentQuote == [status |-> "absent", task_id |-> None,
                contractor_account_id |-> None, price_sats |-> 0]

\* the process has just started: nothing in memory, no request in flight
InitProcess ==
    /\ now = cleanup_interval_seconds
    /\ used_hashes = [used |-> <<>>, last_cleanup |-> 0]
    /\ locks = [r \in LockRows |-> None]
    /\ procs = [p \in Procs |-> IdleProc]
    /\ admissions = <<>>

\* the prices of the marketplace runs: what a quote is posted at, what it is
\* raised to, what a contractor collects
PostedPrice == 2
RaisedPrice == 5
CollectAmount == 10

\* the marketplace after buyer A posted task t1: A has 3 sats left and a
\* refill invoice of 5 waiting for its claim, contractor B has the price of
\* two quotes
InitHire ==
    /\ InitProcess
    /\ daily = [date |-> 0 - 1, counters |-> [x \in Paths |-> 0]]
    /\ accounts = [a \in AccountIds |->
                     [present |-> a # "C",
                      balance_sats |-> IF a = "A" THEN PostedPrice + 1
                                       ELSE IF a = "B" THEN 2 * PostQuotePrice
                                       ELSE 0]]
    /\ usage_log = SetToBag({UsageRow("A", <<"hire:post_task">>, PostTaskPrice)})
    /\ topup_invoices = [h \in InvoiceHashes |->
                           [status |-> "pending", account_id |-> "A",
                            amount_sats |-> RaisedPrice]]
    /\ hire_tasks = [t \in TaskIds |->
                       [status |-> "open", buyer_account_id |-> "A"]]
    /\ hire_quotes = [q \in QuoteIds |-> AbsentQuote]
    /\ hire_deliveries = <<>>
    /\ hire_messages = <<>>

NextHire ==
    \E p \in Procs :
        \/ hire_create_quote(p, {TokenOf("B")}, {PostedPrice})
        \/ hire_accept_quote(p, {TokenOf("A")})
        \/ hire_update_quote(p, {TokenOf("B")}, {RaisedPrice})
        \/ hire_deliver(p, {TokenOf("B")})
        \/ hire_confirm(p, {TokenOf("A")})
        \/ hire_collect(p, {TokenOf("B")}, {CollectAmount})
        \/ claim_topup(p, {Preimage1}, {"A"})
        \/ DebitTokenLock(p)
        \/ DebitTokenCommit(p)
        \/ DebitAccountLock(p)
        \/ DebitAccountCommit(p)
        \/ CreateQuoteRead(p)
        \/ CreateQuoteInsert(p)
        \/ UpdateQuoteRead(p)
        \/ UpdateQuoteWrite(p)
        \/ AcceptLockTask(p)
        \/ AcceptLockQuote(p)
        \/ AcceptLockAccount(p)
        \/ AcceptCommit(p)
        \/ DeliverLockTask(p)
        \/ DeliverCommit(p)
        \/ ConfirmLockTask(p)
        \/ ConfirmReadQuote(p)
        \/ ConfirmCommit(p)
        \/ CollectPay(p)
        \/ CollectRefund(p, {TRUE})
        \/ Challenge(p, {PhoenixError, PhoenixInvoice(H2)})
        \/ ClaimLockInvoice(p)
        \/ ClaimLockAccount(p)
        \/ ClaimCommit(p)

SpecHire == InitHire /\ [][NextHire]_vars

-----------------------------------------------------------------------------
(* Properties of the ledger and of the marketplace (SpecHire) *)

\* the number of usage_log rows written for an endpoint
UsageCount(log, endpoint) ==
    BagCardinality([r \in {x \in BagToSet(log) : x.endpoint = endpoint} |-> log[r]])

\* connection p took a step
Stepped(p) == procs'[p] # procs[p]

NonNegative == \A a \in AccountIds : accounts[a].balance_sats >= 0

\* the account whose balance the debit of p is about to read under the lock
DebitedAccount(p) ==
    IF procs[p].pc = "dtb_lock" THEN AccountByToken(procs[p].token)
    ELSE procs[p].account_id

AtBalanceCheck(p) ==
    /\ procs[p].pc \in {"dtb_lock", "da_lock", "aq_account"}
    /\ AccountPresent(DebitedAccount(p))

DebitRefused(p) ==
    /\ procs'[p].result \in {"TopupInsufficientBalance", "HireInsufficientBalance"}
    /\ procs'[p].balance = accounts[DebitedAccount(p)].balance_sats
    /\ procs'[p].amount = procs[p].amount
    /\ accounts' = accounts
    /\ usage_log' = usage_log

ExcessiveDebitRefused ==
    \A p \in Procs :
        (/\ AtBalanceCheck(p)
         /\ Stepped(p)
         /\ procs[p].amount > accounts[DebitedAccount(p)].balance_sats)
        => DebitRefused(p)

\* C5: no balance is ever negative, and a debit (debit_token_balance,
\* debit_account, accept_quote) of more than the balance it reads under the
\* row lock raises InsufficientBalance with that balance and the required
\* amount, leaving the balances and the usage log as they were.
C5_BalancesNonNegative == []NonNegative /\ [][ExcessiveDebitRefused]_vars

\* a collect was refused for lack of funds while an accept holds its locks
C5_Witness ==
    \E p \in Procs :
        /\ procs[p].pc = "done"
        /\ procs[p].handler = "hire_collect"
        /\ procs[p].result = "HireInsufficientBalance"
        /\ procs[p].balance < procs[p].amount
        /\ \E r \in Procs : procs[r].pc = "aq_commit"

\* C6: a task never has two accepted quotes.
C6_OneAcceptedQuote ==
    \A t \in TaskIds : Cardinality(QuotesOf(hire_quotes, t, "accepted")) <= 1

\* a task with an accepted quote and a second quote that was turned down
C6_Witness ==
    \E t \in TaskIds :
        /\ Cardinality(QuotesOf(hire_quotes, t, "accepted")) = 1
        /\ Cardinality(QuotesOf(hire_quotes, t, "rejected")) = 1

AcceptPcs == {"aq_task", "aq_quote", "aq_account", "aq_commit"}

\* the accept_quote call of p returns, or raises
AcceptReturns(p) == procs[p].pc \in AcceptPcs /\ procs'[p].pc \notin AcceptPcs

\* the call of p is the buyer's, for a quote of the task
BuyerAccept(p) ==
    /\ TaskPresent(procs[p].task)
    /\ hire_tasks[procs[p].task].buyer_account_id = procs[p].account_id
    /\ QuotePresent(procs[p].quote)
    /\ hire_quotes[procs[p].quote].task_id = procs[p].task

AcceptCommitted(p) ==
    /\ procs'[p].result = "ok"
    /\ TaskOpen(hire_tasks[procs[p].task].status)
    /\ hire_tasks'[procs[p].task].status = "in_escrow"
    /\ hire_quotes[procs[p].quote].status = "pending"
    /\ accounts' = Debit(accounts, procs[p].account_id,
                         hire_quotes[procs[p].quote].price_sats)
    /\ usage_log' = LogUsage(usage_log, procs[p].account_id,
                             EscrowLock(procs[p].task),
                             hire_quotes[procs[p].quote].price_sats)

AcceptInvalidState(p) ==
    /\ procs'[p].result = "HireInvalidState"
    /\ ~TaskOpen(hire_tasks[procs[p].task].status)
    /\ UNCHANGED <<accounts, usage_log, hire_tasks, hire_quotes>>

AcceptUnfunded(p) ==
    /\ procs'[p].result = "HireInsufficientBalance"
    /\ accounts[procs[p].account_id].balance_sats
          < hire_quotes[procs[p].quote].price_sats
    /\ UNCHANGED <<accounts, usage_log, hire_tasks, hire_quotes>>

\* another accept_quote call on the same task is in flight
ConcurrentAccept(p) ==
    \E r \in Procs \ {p} :
        procs[r].pc \in AcceptPcs /\ procs[r].task = procs[p].task

EscrowedOnce ==
    \A t \in TaskIds :
        UsageCount(usage_log, EscrowLock(t)) =
            IF hire_tasks[t].status \in {"in_escrow", "delivered", "completed"}
            THEN 1 ELSE 0

C7_AmendedOutcomes ==
    \A p \in Procs :
        (AcceptReturns(p) /\ BuyerAccept(p))
        => (AcceptCommitted(p) \/ AcceptInvalidState(p) \/ AcceptUnfunded(p))

\* C7 (as amended): the buyer's accept_quote calls on a task serialize at
\* the task row.  A call commits only from an open task, moves it to
\* in_escrow and debits the buyer by the price of its quote; a call that
\* finds the task no longer open fails with HireInvalidState; a call for a
\* quote whose price exceeds the buyer's balance fails with
\* HireInsufficientBalance; a failed call changes nothing, and the buyer is
\* debited exactly once per task that left open.
C7_AcceptSerialized == []EscrowedOnce /\ [][C7_AmendedOutcomes]_vars

C7_ClaimedOutcomes ==
    \A p \in Procs :
        (AcceptReturns(p) /\ BuyerAccept(p) /\ ConcurrentAccept(p))
        => (AcceptCommitted(p) \/ AcceptInvalidState(p))

\* C7 as the claim words it: of the buyer's concurrent accept_quote calls
\* on a task, each one either commits or fails with HireInvalidState.
C7_AsClaimed == [][C7_ClaimedOutcomes]_vars

\* two accepts ran: one committed, the other was refused for the state
C7_Witness ==
    \E p \in Procs, r \in Procs :
        /\ procs[p].pc = "done" /\ procs[p].handler = "hire_accept_quote"
        /\ procs[p].result = "ok"
        /\ procs[r].pc = "done" /\ procs[r].handler = "hire_accept_quote"
        /\ procs[r].result = "HireInvalidState"
        /\ \E t \in TaskIds : hire_tasks[t].status = "in_escrow"

\* the accept_quote transaction that commits in this step, if one does
AcceptCommits(p, t) ==
    /\ procs[p].pc = "aq_commit"
    /\ procs[p].task = t
    /\ Stepped(p)

C8_CommittedState ==
    \A t \in TaskIds :
        (TaskOpen(hire_tasks[t].status) /\ hire_tasks'[t].status # hire_tasks[t].status)
        => \E p \in Procs :
              /\ AcceptCommits(p, t)
              /\ procs'[p].result = "ok"
              /\ hire_tasks'[t].status = "in_escrow"
              /\ QuotesOf(hire_quotes', t, "accepted") = {procs[p].quote}
              /\ QuotesOf(hire_quotes', t, "pending") = {}
              /\ \A q \in QuoteIds \ {procs[p].quote} :
                    hire_quotes'[q] =
                        IF q \in QuotesOf(hire_quotes, t, "pending")
                        THEN [hire_quotes[q] EXCEPT !.status = "rejected"]
                        ELSE hire_quotes[q]

\* what every transaction sees of an acceptance: all of it or none of it
C8_NothingPartial ==
    \A t \in TaskIds :
        /\ TaskOpen(hire_tasks[t].status)
              => QuotesOf(hire_quotes, t, "accepted") \cup
                 QuotesOf(hire_quotes, t, "rejected") = {}
        /\ hire_tasks[t].status \in {"in_escrow", "delivered", "completed"}
              => Cardinality(QuotesOf(hire_quotes, t, "accepted")) = 1

\* C8: the step that commits accept_quote(task, quote) leaves the task
\* in_escrow, the named quote as its only accepted quote and none of its
\* quotes pending, every other quote that was pending being rejected; and no
\* state shows a part of this: an open task has no accepted or rejected
\* quote, a task past open has its accepted quote.
C8_AcceptAtomic == []C8_NothingPartial /\ [][C8_CommittedState]_vars

\* an acceptance committed while a second quote was pending
C8_Witness ==
    \E t \in TaskIds, p \in Procs :
        /\ hire_tasks[t].status = "in_escrow"
        /\ procs[p].pc = "done" /\ procs[p].handler = "hire_accept_quote"
        /\ procs[p].result = "ok"
        /\ QuotesOf(hire_quotes, t, "rejected") # {}
        /\ QuotesOf(hire_quotes, t, "pending") = {}

C9_CreditIsPrice ==
    \A t \in TaskIds :
        (TaskDelivered(hire_tasks[t].status) /\ hire_tasks'[t].status = "completed")
        => \E q \in QuotesOf(hire_quotes, t, "accepted") :
              accounts' = Credit(accounts, hire_quotes[q].contractor_account_id,
                                 hire_quotes[q].price_sats)

\* C9: the step that commits confirm_delivery (the task goes from delivered
\* to completed) adds the price_sats of the task's accepted quote to the
\* balance of that quote's contractor and changes no other balance.
C9_ReleaseByPrice == [][C9_CreditIsPrice]_vars

ConfirmPcs == {"cd_task", "cd_quote", "cd_commit"}

ConfirmReturns(p) == procs[p].pc \in ConfirmPcs /\ procs'[p].pc \notin ConfirmPcs

ConfirmSucceeded(p) ==
    /\ procs'[p].result = "ok"
    /\ TaskDelivered(hire_tasks[procs[p].task].status)
    /\ hire_tasks[procs[p].task].buyer_account_id = procs[p].account_id
    /\ hire_tasks'[procs[p].task].status = "completed"

ConfirmInvalidState(p) ==
    /\ procs'[p].result = "HireInvalidState"
    /\ ~TaskDelivered(hire_tasks[procs[p].task].status)
    /\ UNCHANGED <<accounts, usage_log, hire_tasks>>

C10_Outcomes ==
    \A p \in Procs :
        /\ (ConfirmReturns(p) /\ TaskPresent(procs[p].task)
            /\ hire_tasks[procs[p].task].buyer_account_id = procs[p].account_id)
           => (ConfirmSucceeded(p) \/ ConfirmInvalidState(p))
        /\ (Stepped(p) /\ procs[p].pc \notin ConfirmPcs)
           => UsageCount(usage_log', EscrowRelease(procs[p].task))
                 = UsageCount(usage_log, EscrowRelease(procs[p].task))

ReleasedOnce ==
    \A t \in TaskIds :
        UsageCount(usage_log, EscrowRelease(t)) =
            IF hire_tasks[t].status = "completed" THEN 1 ELSE 0

-----------------------------------------------------------------------------
(* The payment gate (SpecGate): the gateway and the paid marketplace        *)
(* endpoints under every kind of credentials                                *)

\* the macaroons the clients hold: one the server minted for an invoice of
\* PostTaskPrice sats of account A, one it minted for an invoice of 1 sat,
\* and a copy of the first signed with another key
PaidMacaroon == create_l402_macaroon(H1, PostTaskPrice, "A")
SmallMacaroon == create_l402_macaroon(H2, 1, None)
ForgedMacaroon ==
    MakeMacaroon(ForeignKey, PaidMacaroon.identifier, PaidMacaroon.caveats)

L402Of(macaroon, preimage) ==
    [NoHeaders EXCEPT !.auth = "L402", !.macaroon = macaroon, !.preimage = preimage]

\* Authorization headers: the paid macaroon with its preimage, with another
\* invoice's preimage and with a preimage that is no 32 bytes; the forged
\* and the small macaroon; a header that does not parse
L402Headers ==
    {L402Of(PaidMacaroon, Preimage1), L402Of(PaidMacaroon, Preimage2),
     L402Of(PaidMacaroon, PreimageShort), L402Of(ForgedMacaroon, Preimage1),
     L402Of(SmallMacaroon, Preimage2), [NoHeaders EXCEPT !.auth = "malformed"]}

GatewayPrice == 2

GatewayRequests ==
    {x @@ [price |-> GatewayPrice, body_ok |-> TRUE] :
        x \in L402Headers \cup {NoHeaders, TokenOf("A"), TokenOf(UnknownToken)}}
    \cup {L402Of(PaidMacaroon, Preimage1) @@ [price |-> GatewayPrice, body_ok |-> FALSE]}

\* the server has answered DailyLimit - DailyHeadroom gateway calls today;
\* account A holds the price of one gateway call, B nothing, C is not open
InitGate ==
    /\ InitProcess
    /\ daily = [date |-> Today(cleanup_interval_seconds),
                counters |-> [x \in Paths |-> DailyLimit(x) - DailyHeadroom]]
    /\ accounts = [a \in AccountIds |->
                     [present |-> a # "C",
                      balance_sats |-> IF a = "A" THEN GatewayPrice + 1 ELSE 0]]
    /\ usage_log = EmptyBag
    /\ topup_invoices = [h \in InvoiceHashes |->
                           [status |-> "absent", account_id |-> None, amount_sats |-> 0]]
    /\ hire_tasks = [t \in TaskIds |-> AbsentTask]
    /\ hire_quotes = [q \in QuoteIds |-> AbsentQuote]
    /\ hire_deliveries = <<>>
    /\ hire_messages = <<>>

NextGate ==
    \/ Tick
    \/ CleanupWorker
    \/ \E p \in Procs :
        \/ Gateway(p, GatewayRequests)
        \/ ProxyUpstream(p)
        \/ Challenge(p, {PhoenixError, PhoenixInvoice(H2)})
        \/ DebitTokenLock(p)
        \/ DebitTokenCommit(p)

SpecGate == InitGate /\ [][NextGate]_vars

\* L402 credentials on every endpoint that redeems them (SpecL402): the
\* gateway and POST tasks, POST quotes, POST accept.  Buyer A holds the
\* macaroon of a paid PostTaskPrice invoice, contractor B the macaroon of a
\* paid PostQuotePrice invoice.
QuoteMacaroon == create_l402_macaroon(H2, PostQuotePrice, "B")

BuyerRequests ==
    {L402Of(PaidMacaroon, Preimage1), L402Of(ForgedMacaroon, Preimage1)}

NextL402 ==
    \/ Tick
    \/ CleanupWorker
    \/ \E p \in Procs :
        \/ Gateway(p, {x @@ [price |-> GatewayPrice, body_ok |-> TRUE] :
                          x \in BuyerRequests})
        \/ ProxyUpstream(p)
        \/ hire_create_task(p, BuyerRequests, {TRUE})
        \/ hire_create_quote(p, {L402Of(QuoteMacaroon, Preimage2),
                                 L402Of(QuoteMacaroon, Preimage1)}, {PostedPrice})
        \/ hire_accept_quote(p, BuyerRequests)
        \/ CreateTaskInsert(p)
        \/ CreateQuoteRead(p)
        \/ CreateQuoteInsert(p)
        \/ AcceptLockTask(p)
        \/ AcceptLockQuote(p)
        \/ AcceptLockAccount(p)
        \/ AcceptCommit(p)

SpecL402 == InitGate /\ [][NextL402]_vars

-----------------------------------------------------------------------------
(* Properties of the payment gate (SpecGate, SpecL402) *)

\* the macaroon carries the HMAC chain of the root key over its own
\* identifier and caveats
RootSigned(macaroon) ==
    /\ macaroon.wellformed
    /\ macaroon.signature.key = L402_ROOT_KEY
    /\ macaroon.signature.identifier = macaroon.identifier
    /\ macaroon.signature.caveats = macaroon.caveats

CaveatHash(macaroon) == extract_l402_caveats(macaroon).payment_hash
CaveatAmount(macaroon) == extract_l402_caveats(macaroon).amount_sats

\* the preimage is 32 bytes and its SHA-256 is the payment_hash caveat
PreimageMatches(pr) ==
    /\ Strip(pr.preimage) \in Preimages32
    /\ Sha256Hex(Strip(pr.preimage)) = CaveatHash(pr.macaroon)

ValidPair(pr) ==
    /\ pr.auth = "L402"
    /\ RootSigned(pr.macaroon)
    /\ extract_l402_caveats(pr.macaroon).error = ""
    /\ PreimageMatches(pr)

\* p starts to handle a request in this step
Starts(p) == procs[p].pc \in {"idle", "done"} /\ procs'[p] # procs[p]

\* h was marked used at most ttl_seconds before time t
InWindow(h, t) == h \in DOMAIN admissions /\ t - admissions[h] <= ttl_seconds

\* the gateway passes the request of p on to _proxy_upstream in this step
ForwardStep(p) ==
    /\ procs'[p].handler = "gateway"
    /\ procs'[p].pc = "proxy"
    /\ procs[p].pc # "proxy"

\* the step is the commit of the debit of the request's price from the
\* account of its X-Token
TokenPayment(p) ==
    /\ procs[p].pc = "dtb_commit"
    /\ procs[p].token # None
    /\ procs'[p].debits = 1 /\ procs'[p].marks = 0
    /\ LET a == AccountByToken(procs[p].token)
       IN  /\ a # None
           /\ accounts'[a].balance_sats = accounts[a].balance_sats - procs[p].price
           /\ \A b \in AccountIds \ {a} : accounts'[b] = accounts[b]

\* the step marks for the first time the payment hash of a macaroon that
\* verified and whose amount covers the price
L402Payment(p) ==
    /\ procs[p].pc \in {"idle", "done"}
    /\ procs'[p].token = None
    /\ procs'[p].debits = 0 /\ procs'[p].marks = 1
    /\ ValidPair(procs'[p])
    /\ CaveatAmount(procs'[p].macaroon) >= procs'[p].price
    /\ LET h == CaveatHash(procs'[p].macaroon)
       IN  /\ h \notin DOMAIN used_hashes.used
              \/ now - used_hashes.used[h] > ttl_seconds
           /\ h \in DOMAIN used_hashes'.used
           /\ used_hashes'.used[h] = now
    /\ accounts' = accounts

\* a gateway request with neither X-Token nor Authorization
NoCredentials(pr) ==
    pr.handler = "gateway" /\ pr.token = None /\ pr.auth = "none"

\* every forwarded gateway request has paid exactly once, and no request
\* without credentials is forwarded
C1_Paid ==
    \A p \in Procs :
        /\ procs[p].handler = "gateway" /\ procs[p].forwarded
              => procs[p].debits + procs[p].marks = 1
        /\ procs[p].handler = "gateway" /\ procs[p].pc = "proxy"
              => procs[p].forwarded
        /\ NoCredentials(procs[p]) => ~procs[p].forwarded /\ procs[p].pc # "proxy"

C1_Forward ==
    \A p \in Procs : ForwardStep(p) => TokenPayment(p) \/ L402Payment(p)

\* the gateway answers a request without credentials that has reached the
\* challenge
ChallengeStep(p) ==
    /\ NoCredentials(procs[p])
    /\ procs[p].pc = "invoice"
    /\ procs'[p] # procs[p]

C1_ChallengeOrUnavailable ==
    \A p \in Procs :
        ChallengeStep(p) =>
            /\ procs'[p].pc = "done"
            /\ ~procs'[p].forwarded
            /\ \/ /\ procs'[p].resp = "402 payment_required"
                  /\ RootSigned(procs'[p].challenge)
                  /\ CaveatAmount(procs'[p].challenge) = procs[p].price
               \/ procs'[p].resp = "503 phoenix_unavailable"

\* C1 (as amended): the gateway forwards a request only in a step that is
\* the one payment of that request, the commit of the debit of its price
\* from the X-Token account or the first marking of the payment hash of a
\* verified macaroon whose amount covers the price; a request with neither
\* header is never forwarded and is answered with the 402 challenge, or with
\* 503 phoenix_unavailable when no invoice could be created.
C1_ForwardedAfterOnePayment ==
    /\ []C1_Paid
    /\ [][C1_Forward /\ C1_ChallengeOrUnavailable]_vars

C1_Challenged ==
    \A p \in Procs :
        ChallengeStep(p) => procs'[p].resp = "402 payment_required"

\* C1 (as stated): a request with neither header that the gateway answers
\* from its challenge branch receives the 402 challenge.
C1_AsClaimed == [][C1_Challenged]_vars

\* one request was forwarded after the debit of its token, the other one
\* came without credentials and holds the 402 challenge
C1_Witness ==
    \E p, r \in Procs :
        /\ procs[p].handler = "gateway" /\ procs[p].forwarded
        /\ procs[p].debits = 1 /\ procs[p].token = "A"
        /\ NoCredentials(procs[r]) /\ procs[r].resp = "402 payment_required"

-----------------------------------------------------------------------------
\* the gateway takes a verified pair into its L402 branch in this step: the
\* request passed the validation and the daily cap
PairStep(p) ==
    /\ Starts(p)
    /\ procs'[p].handler = "gateway"
    /\ procs'[p].token = None
    /\ ValidPair(procs'[p])
    /\ procs'[p].resp \notin {"400 invalid_request", "429 daily_limit_reached"}

GatewayAdmitted(pr) ==
    pr.pc = "proxy" /\ pr.forwarded /\ pr.marks = 1 /\ pr.debits = 0

AlreadyUsed(pr) ==
    pr.pc = "done" /\ pr.resp = "400 payment_already_used" /\ ~pr.forwarded
    /\ pr.marks = 0

\* what the gateway does with a verified pair: within ttl_seconds of the
\* admission of its hash payment_already_used; for a hash never admitted the
\* forward when the amount covers the price and insufficient_payment when
\* it does not; later than ttl_seconds one of the three
C2_PairOutcome ==
    \A p \in Procs :
        PairStep(p) =>
            LET pr == procs'[p]
                h == CaveatHash(pr.macaroon)
                covered == CaveatAmount(pr.macaroon) >= pr.amount
            IN  /\ InWindow(h, now) => AlreadyUsed(pr) /\ admissions' = admissions
                /\ h \notin DOMAIN admissions /\ covered
                      => GatewayAdmitted(pr) /\ admissions'[h] = now
                /\ h \notin DOMAIN admissions /\ ~covered
                      => /\ pr.resp = "402 insufficient_payment"
                         /\ ~pr.forwarded /\ pr.marks = 0
                         /\ admissions' = admissions
                /\ \/ AlreadyUsed(pr)
                   \/ GatewayAdmitted(pr) /\ covered
                   \/ pr.resp = "402 insufficient_payment" /\ ~covered

\* two requests admitted with the same hash and both still being forwarded
\* were admitted more than ttl_seconds apart
C2_OneWinner ==
    \A p, r \in Procs :
        /\ p # r
        /\ GatewayAdmitted(procs[p]) /\ GatewayAdmitted(procs[r])
        /\ CaveatHash(procs[p].macaroon) = CaveatHash(procs[r].macaroon)
        => \/ procs[p].gate_time - procs[r].gate_time > ttl_seconds
           \/ procs[r].gate_time - procs[p].gate_time > ttl_seconds

\* C2 (as amended): of the gateway requests that present the same verified
\* (macaroon, preimage) pair with an amount that covers the price, the first
\* one is admitted and forwarded, and every other one that arrives within
\* ttl_seconds of that admission is answered payment_already_used; a pair
\* whose amount is below the price admits none of them (insufficient_payment).
C2_OneAdmission == []C2_OneWinner /\ [][C2_PairOutcome]_vars

C2_ClaimedOutcome ==
    \A p \in Procs :
        PairStep(p) => GatewayAdmitted(procs'[p]) \/ AlreadyUsed(procs'[p])

C2_ClaimedWinner ==
    \A p, r \in Procs :
        /\ p # r
        /\ GatewayAdmitted(procs[p]) /\ GatewayAdmitted(procs[r])
        => CaveatHash(procs[p].macaroon) # CaveatHash(procs[r].macaroon)

\* C2 (as stated): every gateway request with a verified pair is admitted or
\* answered payment_already_used, and no two requests with the same pair are
\* admitted while both are running.
C2_AsClaimed == []C2_ClaimedWinner /\ [][C2_ClaimedOutcome]_vars

\* two requests with the same pair at the same time: one is being
\* forwarded, the other one was answered payment_already_used
C2_Witness ==
    \E p, r \in Procs :
        /\ GatewayAdmitted(procs[p]) /\ procs[p].gate_time = now
        /\ procs[r].handler = "gateway" /\ AlreadyUsed(procs[r])
        /\ procs[r].macaroon = procs[p].macaroon
        /\ procs[r].preimage = procs[p].preimage
        /\ admissions[CaveatHash(procs[p].macaroon)] = now

-----------------------------------------------------------------------------
\* the endpoints that redeem an L402 payment
RedeemingHandlers ==
    {"gateway", "hire_create_task", "hire_create_quote", "hire_accept_quote"}

\* the request that p starts in this step redeems its payment hash
Redeems(p) == Starts(p) /\ procs'[p].marks = 1

\* a hash marked at most ttl_seconds ago is still in the set with the time
\* of its marking, is_used finds it and mark_used returns false for it
Retained ==
    \A h \in DOMAIN admissions :
        now - admissions[h] <= ttl_seconds =>
            /\ h \in DOMAIN used_hashes.used
            /\ used_hashes.used[h] = admissions[h]
            /\ is_used(used_hashes, h, now).ret
            /\ ~mark_used(used_hashes, h, now).ret
            /\ h \in DOMAIN UsedCleanup(used_hashes, now).used

\* a request redeems a hash only if the hash was never marked or was marked
\* more than ttl_seconds ago, and the redemption is the marking at now
NoReadmission ==
    /\ \A p \in Procs :
          Redeems(p) =>
              LET h == CaveatHash(procs'[p].macaroon)
              IN  /\ procs'[p].handler \in RedeemingHandlers
                  /\ ~InWindow(h, now)
                  /\ h \in DOMAIN admissions' /\ admissions'[h] = now
                  /\ h \in DOMAIN used_hashes'.used
                  /\ used_hashes'.used[h] = now
    /\ \A h \in DOMAIN admissions' :
          h \in DOMAIN admissions /\ admissions'[h] # admissions[h]
              => admissions'[h] - admissions[h] > ttl_seconds

\* C3: a payment hash marked used at time t is not admitted again by the
\* gateway, POST tasks, POST quotes or POST accept at any time t' with
\* t' - t <= ttl_seconds; no cleanup, opportunistic or in the background,
\* removes an entry of at most that age, and mark_used returns false while
\* the entry is there.
C3_NoReuseWithinTtl == []Retained /\ [][NoReadmission]_vars

\* exactly ttl_seconds after the marking of H1 a cleanup has run, H1 is
\* still in the set and a marketplace request that presented it again was
\* answered payment_already_used
C3_Witness ==
    /\ H1 \in DOMAIN admissions
    /\ now - admissions[H1] = ttl_seconds
    /\ used_hashes.last_cleanup = now
    /\ H1 \in DOMAIN used_hashes.used
    /\ \E p \in Procs :
          /\ procs[p].handler \in RedeemingHandlers \ {"gateway"}
          /\ procs[p].resp = "400 payment_already_used"
          /\ CaveatHash(procs[p].macaroon) = H1

\* the paid operation of the request of p is done in this step
Performs(p) ==
    \/ ~procs[p].performed /\ procs'[p].performed
    \/ ForwardStep(p)

\* an L402 request is admitted, and its paid operation performed, only with
\* a macaroon signed with the root key and the preimage of its payment_hash
C4_Admission ==
    \A p \in Procs :
        /\ Redeems(p) => ValidPair(procs'[p])
        /\ Performs(p) /\ procs'[p].auth = "L402" /\ procs'[p].token = None
              => ValidPair(procs'[p]) /\ procs'[p].marks = 1

\* a request whose macaroon or preimage fails the check is answered at once;
\* it marks nothing and performs nothing
C4_Refusal ==
    \A p \in Procs :
        /\ Starts(p)
        /\ procs'[p].auth = "L402" /\ procs'[p].token = None
        /\ ~ValidPair(procs'[p])
        => /\ procs'[p].pc = "done"
           /\ procs'[p].resp \in {"401 invalid_l402", "400 invalid_payment",
                                  "400 invalid_request", "429 daily_limit_reached"}
           /\ procs'[p].marks = 0
           /\ ~procs'[p].performed /\ ~procs'[p].forwarded
           /\ used_hashes'.used = used_hashes.used
           /\ admissions' = admissions
           /\ hire_tasks' = hire_tasks /\ hire_quotes' = hire_quotes
           /\ accounts' = accounts

C4_NothingWithoutProof ==
    \A p \in Procs :
        (/\ procs[p].auth = "L402" /\ procs[p].token = None
         /\ (procs[p].marks # 0 \/ procs[p].performed \/ procs[p].forwarded))
            => ValidPair(procs[p])

\* C4: every L402 admission, on the gateway and on the marketplace
\* endpoints, happens only when the macaroon's signature verifies under the
\* root key and SHA-256 of the 32-byte preimage is the payment_hash caveat;
\* a request that fails either check marks no hash and performs nothing.
C4_ProofOfPayment ==
    /\ []C4_NothingWithoutProof
    /\ [][C4_Admission /\ C4_Refusal]_vars

\* a task was posted with the paid macaroon and its preimage, and the same
\* endpoint refused the macaroon signed with another key
C4_Witness ==
    \E p, r \in Procs :
        /\ procs[p].handler = "hire_create_task" /\ procs[p].performed
        /\ procs[p].marks = 1 /\ ValidPair(procs[p])
        /\ procs[r].handler = "hire_create_task"
        /\ procs[r].resp = "401 invalid_l402"
        /\ procs[r].macaroon = ForgedMacaroon

-----------------------------------------------------------------------------
(* Top-ups (SpecTopup): POST /topup and POST /topup/claim on one payment    *)
(* hash; accounts A and B exist, the next new account is C                  *)

InitTopup ==
    /\ InitProcess
    /\ daily = [date |-> Today(cleanup_interval_seconds),
                counters |-> [x \in Paths |-> 0]]
    /\ accounts = [a \in AccountIds |-> [present |-> a # "C", balance_sats |-> 0]]
    /\ usage_log = EmptyBag
    /\ topup_invoices = [h \in InvoiceHashes |->
                           [status |-> "absent", account_id |-> None, amount_sats |-> 0]]
    /\ hire_tasks = [t \in TaskIds |-> AbsentTask]
    /\ hire_quotes = [q \in QuoteIds |-> AbsentQuote]
    /\ hire_deliveries = <<>>
    /\ hire_messages = <<>>

NextTopup ==
    \E p \in Procs :
        \/ create_topup(p, {None, "A"}, {RaisedPrice})
        \/ TopupInvoice(p, {PhoenixError, PhoenixInvoice(<<"A", "1">>)})
        \/ CreateTopupInvoice(p)
        \/ claim_topup(p, {Preimage1, PreimageShort}, {None, "A", "B"})
        \/ ClaimLockInvoice(p)
        \/ ClaimLockAccount(p)
        \/ ClaimCommit(p)

SpecTopup == InitTopup /\ [][NextTopup]_vars

\* the sats credited so far: every balance of SpecTopup starts at 0 and is
\* changed by top-up claims alone
TotalCredited ==
    accounts["A"].balance_sats + accounts["B"].balance_sats
    + accounts["C"].balance_sats

\* a step of the top-up claim of p
ClaimStep(p) == procs'[p] # procs[p] /\ procs'[p].handler = "claim_topup"

\* C11: for every payment hash, over any interleaving of invoice creations
\* (one that stores a hash already present included) and claims, the amount
\* of the invoice is credited at most once: the sats credited never exceed
\* the amount_sats of the one invoice.
C11_CreditedOnce ==
    \A h \in InvoiceHashes :
        InvoicePresent(h) => TotalCredited <= topup_invoices[h].amount_sats

\* C12: a claim with a valid preimage and no token, for a pending invoice
\* bound to an account, goes on to credit the bound account and to mark the
\* invoice paid.
C12_BoundClaimWithoutToken ==
    [][\A p \in Procs :
          (/\ procs[p].pc = "cl_account"
           /\ procs[p].token = None
           /\ procs[p].contractor # None
           /\ procs'[p] # procs[p])
          => /\ procs'[p].pc = "cl_commit"
             /\ procs'[p].account_id = procs[p].contractor
             /\ procs'[p].resp # "400 missing_token"]_vars

\* the claim of p holds the pending invoice and presents the token of an
\* account other than the one bound to the invoice
WrongAccountClaim(p) ==
    /\ procs[p].pc = "cl_account"
    /\ procs[p].token \in AccountIds
    /\ accounts[procs[p].token].present
    /\ procs[p].contractor \in AccountIds
    /\ procs[p].contractor # procs[p].token

\* C13: a claim whose token resolves to an account other than the one bound
\* to the invoice is answered invalid_payment; the invoice stays pending and
\* unlocked, bound as before, and every balance is unchanged.
C13_WrongAccountRefused ==
    [][\A p \in Procs :
          (WrongAccountClaim(p) /\ procs'[p] # procs[p])
          => /\ procs'[p].pc = "done"
             /\ procs'[p].resp = "400 invalid_payment"
             /\ accounts' = accounts
             /\ topup_invoices' = topup_invoices
             /\ topup_invoices'[procs[p].l402_payment_hash].status = "pending"
             /\ \A r \in LockRows : locks'[r] # p]_vars

\* account B was refused the invoice bound to A, and A then claimed it: the
\* one credit made is A's
C13_Witness ==
    /\ \E p \in Procs :
          /\ procs[p].resp = "400 invalid_payment"
          /\ procs[p].token = "B"
          /\ procs[p].amount = RaisedPrice
    /\ \E q \in Procs : procs[q].resp = "200 ok" /\ procs[q].token = "A"
    /\ topup_invoices[H1] =
          [status |-> "paid", account_id |-> "A", amount_sats |-> RaisedPrice]
    /\ accounts["A"].balance_sats = RaisedPrice
    /\ accounts["B"].balance_sats = 0

Present(acc) == {a \in AccountIds : acc[a].present}

\* the claim of p, without token and for an unbound invoice, commits
NewAccountCommit(p) ==
    /\ procs[p].pc = "cl_commit"
    /\ procs[p].token = None
    /\ procs'[p] # procs[p]

\* C14: a claim without token for an unbound pending invoice creates
\* exactly one account in the step that marks the invoice paid, returns the
\* token of that account and leaves it a balance equal to the invoice's
\* amount_sats; no other step of a claim creates an account.
C14_OneNewAccount ==
    [][\A p \in Procs :
          /\ NewAccountCommit(p)
             => \E a \in AccountIds :
                   /\ Present(accounts') = Present(accounts) \cup {a}
                   /\ a \notin Present(accounts)
                   /\ accounts'[a].balance_sats
                        = topup_invoices[procs[p].l402_payment_hash].amount_sats
                   /\ \A b \in AccountIds \ {a} : accounts'[b] = accounts[b]
                   /\ topup_invoices'[procs[p].l402_payment_hash].status = "paid"
                   /\ topup_invoices'[procs[p].l402_payment_hash].account_id = a
                   /\ procs'[p].resp = "200 ok"
                   /\ procs'[p].new_token = a
          /\ (ClaimStep(p) /\ ~NewAccountCommit(p))
             => Present(accounts') = Present(accounts)
          /\ (ClaimStep(p) /\ procs'[p].resp # "200 ok")
             => accounts' = accounts]_vars

\* a claim without token has opened account C with the invoice's amount
C14_Witness ==
    \E p \in Procs :
        /\ procs[p].resp = "200 ok"
        /\ procs[p].token = None
        /\ procs[p].new_token = "C"
        /\ accounts["C"] = [present |-> TRUE, balance_sats |-> RaisedPrice]
        /\ topup_invoices[H1].status = "paid"
        /\ topup_invoices[H1].account_id = "C"

-----------------------------------------------------------------------------
(* The escrow challenge of POST accept (SpecHire) *)

\* the accept of p, made with an X-Token, finds the balance of the buyer
\* below the price of the quote
UnfundedAccept(p) ==
    /\ procs[p].pc = "aq_account"
    /\ procs[p].method = "token"
    /\ AccountPresent(procs[p].account_id)
    /\ accounts[procs[p].account_id].balance_sats
          < hire_quotes[procs[p].quote].price_sats
    /\ procs'[p] # procs[p]

\* the accept of p answers its unfunded call in this step
EscrowChallengeStep(p) ==
    /\ procs[p].pc = "invoice"
    /\ procs[p].handler = "hire_accept_quote"
    /\ procs'[p] # procs[p]

\* the answer is 402 with a macaroon for the price of the quote, bound to
\* the buyer
EscrowChallenge(p) ==
    /\ procs'[p].resp = "402 payment_required"
    /\ RootSigned(procs'[p].challenge)
    /\ extract_l402_caveats(procs'[p].challenge).error = ""
    /\ CaveatAmount(procs'[p].challenge) = procs[p].price
    /\ extract_l402_caveats(procs'[p].challenge).has_account_id
    /\ extract_l402_caveats(procs'[p].challenge).account_id
          = AccountText(procs[p].account_id)

LedgerUnchanged == UNCHANGED <<accounts, usage_log, hire_tasks, hire_quotes>>

\* the unfunded accept goes to the challenge for the price of the quote
UnfundedToChallenge(p) ==
    UnfundedAccept(p)
    => /\ procs'[p].pc = "invoice"
       /\ procs'[p].price = hire_quotes[procs[p].quote].price_sats
       /\ procs'[p].account_id = procs[p].account_id
       /\ LedgerUnchanged

\* C15: POST accept by the buyer with an X-Token whose balance is below the
\* price of the quote changes neither task, quotes, balances nor usage log,
\* and is answered 402 with a macaroon whose amount_sats is that price and
\* whose account_id is the buyer, or 503 phoenix_unavailable when Phoenix
\* gives no invoice.
C15_EscrowChallenge ==
    [][\A p \in Procs :
          /\ UnfundedToChallenge(p)
          /\ EscrowChallengeStep(p)
             => /\ LedgerUnchanged
                /\ procs'[p].pc = "done"
                /\ \/ EscrowChallenge(p)
                   \/ procs'[p].resp = "503 phoenix_unavailable"]_vars

\* C15 as claimed: the answer is always the 402 challenge.
C15_AsClaimed ==
    [][\A p \in Procs :
          /\ UnfundedToChallenge(p)
          /\ EscrowChallengeStep(p)
             => /\ LedgerUnchanged
                /\ procs'[p].pc = "done"
                /\ EscrowChallenge(p)]_vars

\* the buyer was challenged for the raised price of a quote that is still
\* pending on an open task
C15_Witness ==
    \E p \in Procs, q \in QuoteIds :
        /\ procs[p].handler = "hire_accept_quote"
        /\ procs[p].token = "A"
        /\ procs[p].resp = "402 payment_required"
        /\ CaveatAmount(procs[p].challenge) = RaisedPrice
        /\ extract_l402_caveats(procs[p].challenge).account_id = AccountText("A")
        /\ hire_quotes[q].status = "pending"
        /\ hire_quotes[q].price_sats = RaisedPrice
        /\ hire_tasks[hire_quotes[q].task_id].status = "open"
        /\ accounts["A"].balance_sats < RaisedPrice

-----------------------------------------------------------------------------
(* The gateway and a token without funds (SpecGate) *)

\* the gateway has answered the request of p, whose valid X-Token holds
\* less than the price
UnfundedToken(p) ==
    /\ procs[p].pc = "done"
    /\ procs[p].handler = "gateway"
    /\ AccountPresent(procs[p].token)
    /\ procs[p].result = "TopupInsufficientBalance"

\* C17: a gateway request with a valid X-Token whose balance is below the
\* price is not forwarded, and is answered 402 together with a fresh L402
\* challenge: a macaroon that carries the account of the token.
C17_AccountBoundChallenge ==
    \A p \in Procs :
        UnfundedToken(p)
        => /\ ~procs[p].forwarded
           /\ procs[p].resp \in {"402 insufficient_balance", "402 payment_required"}
           /\ RootSigned(procs[p].challenge)
           /\ extract_l402_caveats(procs[p].challenge).has_account_id
           /\ extract_l402_caveats(procs[p].challenge).account_id
                 = AccountText(procs[p].token)

-----------------------------------------------------------------------------
(* Escrow paid by L402 (SpecEscrow): buyer A accepts quote q1 of            *)
(* contractor B on the open task, by token or with the macaroon of the      *)
(* escrow challenge; the gateway is called with the same macaroons          *)

\* the macaroon _hire_402_challenge mints for the accept of q1 by A
EscrowMacaroon == create_l402_macaroon(H1, PostedPrice, "A")

\* a macaroon of A for one sat
UnderpaidMacaroon == create_l402_macaroon(H2, 1, "A")

EscrowRequests ==
    {L402Of(EscrowMacaroon, Preimage1), L402Of(UnderpaidMacaroon, Preimage2)}

InitEscrow ==
    /\ InitProcess
    /\ daily = [date |-> Today(cleanup_interval_seconds),
                counters |-> [x \in Paths |-> DailyLimit(x) - DailyHeadroom]]
    /\ \E balance_sats \in {0, PostedPrice} :
          accounts = [a \in AccountIds |->
                        [present |-> a # "C",
                         balance_sats |-> IF a = "A" THEN balance_sats ELSE 0]]
    /\ usage_log = EmptyBag
    /\ topup_invoices = [h \in InvoiceHashes |->
                           [status |-> "absent", account_id |-> None, amount_sats |-> 0]]
    /\ hire_tasks = [t \in TaskIds |-> [status |-> "open", buyer_account_id |-> "A"]]
    /\ hire_quotes = [q \in QuoteIds |->
                        IF q = "q1"
                        THEN [status |-> "pending", task_id |-> "t1",
                              contractor_account_id |-> "B",
                              price_sats |-> PostedPrice]
                        ELSE AbsentQuote]
    /\ hire_deliveries = <<>>
    /\ hire_messages = <<>>

NextEscrow ==
    \E p \in Procs :
        \/ hire_accept_quote(p, EscrowRequests \cup {TokenOf("A")})
        \/ AcceptLockTask(p)
        \/ AcceptLockQuote(p)
        \/ AcceptLockAccount(p)
        \/ AcceptCommit(p)
        \/ Challenge(p, {PhoenixInvoice(H1)})
        \/ Gateway(p, {x @@ [price |-> GatewayPrice, body_ok |-> TRUE] :
                          x \in EscrowRequests})
        \/ ProxyUpstream(p)

SpecEscrow == InitEscrow /\ [][NextEscrow]_vars


\* the accept of p carries the paid L402 of the escrow challenge: a valid
\* pair whose macaroon is for the price of the quote and the buyer
PaidEscrow(p) ==
    /\ procs[p].handler = "hire_accept_quote"
    /\ procs[p].method = "l402"
    /\ ValidPair(procs[p])
    /\ QuotePresent(procs[p].quote)
    /\ CaveatAmount(procs[p].macaroon) = hire_quotes[procs[p].quote].price_sats
    /\ extract_l402_caveats(procs[p].macaroon).account_id
          = AccountText(procs[p].account_id)

\* C16: the retry of POST accept with the L402 of the paid escrow invoice
\* succeeds whatever the ledger balance of the buyer is, and leaves that
\* balance unchanged: the invoice is the escrow.
C16_EscrowByInvoice ==
    [][\A p \in Procs :
          (/\ procs[p].pc \in {"aq_account", "aq_commit"}
           /\ PaidEscrow(p)
           /\ procs'[p] # procs[p])
          => /\ accounts' = accounts
             /\ procs'[p].result # "HireInsufficientBalance"]_vars

\* the hash of the macaroon of pr is in the used-hash set
Spent(pr) == Lower(CaveatHash(pr.macaroon)) \in DOMAIN used_hashes.used

\* the price of the operation pr requests
OperationPrice(pr) ==
    IF pr.handler = "hire_accept_quote" THEN hire_quotes[pr.quote].price_sats
    ELSE pr.price

\* p starts a request with a valid, unspent L402 whose amount_sats is below
\* the price of the operation
UnderpaidRequest(p) ==
    /\ Starts(p)
    /\ ValidPair(procs'[p])
    /\ ~Spent(procs'[p])
    /\ procs'[p].handler = "hire_accept_quote" =>
          /\ QuotePresent(procs'[p].quote)
          /\ hire_quotes[procs'[p].quote].status = "pending"
          /\ extract_l402_caveats(procs'[p].macaroon).account_id = AccountText("A")
    /\ CaveatAmount(procs'[p].macaroon) < OperationPrice(procs'[p])

\* C18: an L402 request whose macaroon's amount_sats is below the price of
\* the requested operation is answered 402 insufficient_payment and leaves
\* the used-hash set as it was.
C18_UnderpaidRefused ==
    [][\A p \in Procs :
          UnderpaidRequest(p)
          => /\ procs'[p].resp = "402 insufficient_payment"
             /\ used_hashes'.used = used_hashes.used]_vars

-----------------------------------------------------------------------------
(* Macaroons (SpecMint): the server mints a macaroon for an invoice, the    *)
(* holder appends caveats to it or forges one, and presents it             *)

Holders == {"p1"}

\* the amounts a macaroon is minted for
MintAmounts == {0 - 1, 0, PostedPrice, PostTaskPrice}

\* the caveats a holder appends
AppendedCaveats ==
    {Caveat("payment_hash", H2), Caveat(" payment_hash ", H1),
     Caveat("amount_sats", FormatInt(PostTaskPrice + 1)),
     Caveat(" amount_sats ", <<"1", "x">>),
     Caveat("account_id", AccountText("B")),
     [key |-> "amount_sats", hasSep |-> FALSE, value |-> <<>>]}

\* the macaroons a holder makes of m without the root key: signed with
\* another key, the amount raised under the old signature, and bytes that
\* are no macaroon
Forgeries(m) ==
    {MakeMacaroon(ForeignKey, m.identifier, m.caveats),
     [m EXCEPT !.caveats[2] = Caveat("amount_sats", FormatInt(PostTaskPrice + 1))],
     NoMacaroon}

\* _create_l402_macaroon for the invoice of a preimage, an amount and the
\* account of the token, if one is given
Mint(p) ==
    /\ Ready(p)
    /\ \E preimage \in Preimages32, amount_sats \in MintAmounts,
          token \in AccountIds \cup {None} :
            SetProc(p, [IdleProc EXCEPT
                           !.handler = "mint", !.pc = "held",
                           !.preimage = preimage, !.price = amount_sats,
                           !.token = token,
                           !.challenge = create_l402_macaroon(Sha256Hex(preimage),
                                                             amount_sats, token),
                           !.macaroon = create_l402_macaroon(Sha256Hex(preimage),
                                                            amount_sats, token)])
    /\ UNCHANGED <<now, used_hashes, daily, accounts, usage_log, topup_invoices,
                   hire_tasks, hire_quotes, hire_deliveries,
                   hire_messages, locks, admissions>>

\* the holder appends a first-party caveat
AppendCaveat(p) ==
    /\ procs[p].pc = "held"
    /\ procs[p].macaroon.wellformed
    /\ Len(procs[p].macaroon.caveats) < MaxCaveats
    /\ \E c \in AppendedCaveats :
          SetProc(p, [procs[p] EXCEPT
                         !.macaroon = AddFirstPartyCaveat(procs[p].macaroon, c)])
    /\ UNCHANGED <<now, used_hashes, daily, accounts, usage_log, topup_invoices,
                   hire_tasks, hire_quotes, hire_deliveries,
                   hire_messages, locks, admissions>>

Forge(p) ==
    /\ procs[p].pc = "held"
    /\ procs[p].macaroon = procs[p].challenge
    /\ \E m \in Forgeries(procs[p].challenge) :
          SetProc(p, [procs[p] EXCEPT !.macaroon = m])
    /\ UNCHANGED <<now, used_hashes, daily, accounts, usage_log, topup_invoices,
                   hire_tasks, hire_quotes, hire_deliveries,
                   hire_messages, locks, admissions>>

\* the request with what _verify_l402_macaroon returned, or raised
Verified(pr, v) ==
    [pr EXCEPT !.pc = "done", !.auth = "L402",
               !.result = IF v.error = "" THEN "ok" ELSE v.error,
               !.l402_payment_hash = v.payment_hash,
               !.l402_amount_sats = v.amount_sats,
               !.account_id = IF v.has_account_id
                              THEN AccountOfText(v.account_id) ELSE None]

\* _verify_l402_macaroon on the macaroon presented
Verify(p) ==
    /\ procs[p].pc = "held"
    /\ SetProc(p, Verified(procs[p], verify_l402_macaroon(procs[p].macaroon)))
    /\ UNCHANGED <<now, used_hashes, daily, accounts, usage_log, topup_invoices,
                   hire_tasks, hire_quotes, hire_deliveries,
                   hire_messages, locks, admissions>>

NextMint ==
    \E p \in Holders : Mint(p) \/ AppendCaveat(p) \/ Forge(p) \/ Verify(p)

SpecMint == InitGate /\ [][NextMint]_vars

\* p has presented a macaroon and holds the outcome
Presented(p) == procs[p].handler = "mint" /\ procs[p].pc = "done"

\* C19: the macaroon minted for a lowercase payment hash, an amount >= 0
\* and an account (or none) verifies to exactly that hash, amount and
\* account; a macaroon whose HMAC chain does not verify under the root key
\* is rejected.
C19_MintVerifyRoundTrip ==
    \A p \in Holders :
        Presented(p)
        => /\ (procs[p].macaroon = procs[p].challenge /\ procs[p].price >= 0)
              => /\ procs[p].result = "ok"
                 /\ procs[p].l402_payment_hash = Sha256Hex(procs[p].preimage)
                 /\ procs[p].l402_amount_sats = procs[p].price
                 /\ procs[p].account_id = procs[p].token
           /\ ~RootSigned(procs[p].macaroon)
              => procs[p].result \in {"Invalid macaroon signature",
                                      "Invalid macaroon format"}

\* a macaroon bound to an account was presented as minted and came back
\* with its payment hash, amount and account
C19_Witness ==
    \E p \in Holders :
        /\ Presented(p)
        /\ procs[p].macaroon = procs[p].challenge
        /\ procs[p].result = "ok"
        /\ procs[p].l402_amount_sats = PostTaskPrice
        /\ procs[p].l402_payment_hash = H2
        /\ procs[p].account_id = "C"

\* the caveats of the sequence that _extract_l402_caveats reads as key
KeyCaveats(caveats, key) ==
    {i \in 1..Len(caveats) :
        caveats[i].hasSep /\ StripKey(caveats[i].key) = key}

\* the macaroon of p is the minted one with caveats appended by the holder
Extended(p) ==
    /\ RootSigned(procs[p].macaroon)
    /\ Len(procs[p].macaroon.caveats) > Len(procs[p].challenge.caveats)
    /\ SubSeq(procs[p].macaroon.caveats, 1, Len(procs[p].challenge.caveats))
          = procs[p].challenge.caveats

\* C20: a macaroon with two payment_hash caveats, two amount_sats caveats,
\* or an amount_sats caveat that is no integer or is negative, is rejected;
\* a minted macaroon the holder appended caveats to is rejected or verifies
\* to the payment hash and the amount the server minted.
C20_CaveatsCannotBeOverridden ==
    \A p \in Holders :
        Presented(p)
        => /\ (\/ Cardinality(KeyCaveats(procs[p].macaroon.caveats, "payment_hash")) > 1
               \/ Cardinality(KeyCaveats(procs[p].macaroon.caveats, "amount_sats")) > 1
               \/ \E i \in KeyCaveats(procs[p].macaroon.caveats, "amount_sats") :
                     \/ ~ParseInt(procs[p].macaroon.caveats[i].value).ok
                     \/ ParseInt(procs[p].macaroon.caveats[i].value).value < 0)
              => procs[p].result # "ok"
           /\ (Extended(p) /\ procs[p].result = "ok")
              => /\ procs[p].l402_payment_hash = Sha256Hex(procs[p].preimage)
                 /\ procs[p].l402_amount_sats = procs[p].price

\* the holder appended a larger amount_sats to a minted macaroon and was
\* refused
C20_Witness ==
    \E p \in Holders :
        /\ Presented(p)
        /\ Extended(p)
        /\ procs[p].price = PostedPrice
        /\ procs[p].macaroon.caveats[Len(procs[p].macaroon.caveats)]
              = Caveat("amount_sats", FormatInt(PostTaskPrice + 1))
        /\ procs[p].result = "Duplicate amount_sats caveat"

-----------------------------------------------------------------------------
(* The usage log and the marketplace state machine (SpecHire) *)

\* the absolute change of the balance of account a in this step
Moved(a) ==
    IF accounts'[a].balance_sats >= accounts[a].balance_sats
    THEN accounts'[a].balance_sats - accounts[a].balance_sats
    ELSE accounts[a].balance_sats - accounts'[a].balance_sats

\* the rows of account a for amount n that the log holds
RowsFor(log, a, n) ==
    BagCardinality([r \in {x \in BagToSet(log) :
                              x.account_id = a /\ x.amount_sats = n} |-> log[r]])

\* C21: every committed change of an account's balance_sats comes with a
\* usage_log row for that account and amount, written in the same
\* transaction.
C21_EveryMoveLogged ==
    [][\A a \in AccountIds :
          accounts'[a].balance_sats # accounts[a].balance_sats
          => RowsFor(usage_log', a, Moved(a)) = RowsFor(usage_log, a, Moved(a)) + 1]_vars

\* the life of a task: the contractor B quotes on the open task of the buyer
\* A, and both of them send every request of the task's life
NextTask ==
    \E p \in Procs :
        \/ hire_create_quote(p, {TokenOf("B")}, {PostedPrice})
        \/ hire_accept_quote(p, {TokenOf("A"), TokenOf("B")})
        \/ hire_update_quote(p, {TokenOf("B")}, {RaisedPrice})
        \/ hire_deliver(p, {TokenOf("A"), TokenOf("B")})
        \/ hire_confirm(p, {TokenOf("A"), TokenOf("B")})
        \/ DebitTokenLock(p)
        \/ DebitTokenCommit(p)
        \/ CreateQuoteRead(p)
        \/ CreateQuoteInsert(p)
        \/ UpdateQuoteRead(p)
        \/ UpdateQuoteWrite(p)
        \/ AcceptLockTask(p)
        \/ AcceptLockQuote(p)
        \/ AcceptLockAccount(p)
        \/ AcceptCommit(p)
        \/ DeliverLockTask(p)
        \/ DeliverCommit(p)
        \/ ConfirmLockTask(p)
        \/ ConfirmReadQuote(p)
        \/ ConfirmCommit(p)
        \/ Challenge(p, {PhoenixInvoice(H2)})

SpecTask == InitHire /\ [][NextTask]_vars

\* the deliveries of task t
DeliveriesOf(deliveries, t) ==
    {i \in 1..Len(deliveries) : deliveries[i].task_id = t}

\* a completed task has one accepted quote and one delivery, of that quote
\* and of its contractor
CompletedTaskShape ==
    \A t \in TaskIds :
        hire_tasks[t].status = "completed" =>
            /\ Cardinality(QuotesOf(hire_quotes, t, "accepted")) = 1
            /\ Cardinality(DeliveriesOf(hire_deliveries, t)) = 1
            /\ \A i \in DeliveriesOf(hire_deliveries, t) :
                  LET d == hire_deliveries[i]
                  IN  /\ hire_quotes[d.quote_id].status = "accepted"
                      /\ hire_quotes[d.quote_id].task_id = t
                      /\ hire_quotes[d.quote_id].contractor_account_id
                            = d.contractor_account_id

\* a step that writes hire_deliveries adds one delivery, the first of its
\* task, while the task is in_escrow, for a request of the contractor of
\* the task's accepted quote
DeliveryCreated ==
    hire_deliveries' # hire_deliveries =>
        /\ Len(hire_deliveries') = Len(hire_deliveries) + 1
        /\ SubSeq(hire_deliveries', 1, Len(hire_deliveries)) = hire_deliveries
        /\ LET d == hire_deliveries'[Len(hire_deliveries')]
           IN  /\ hire_tasks[d.task_id].status = "in_escrow"
               /\ hire_tasks'[d.task_id].status = "delivered"
               /\ DeliveriesOf(hire_deliveries, d.task_id) = {}
               /\ QuotesOf(hire_quotes, d.task_id, "accepted") = {d.quote_id}
               /\ hire_quotes[d.quote_id].contractor_account_id
                     = d.contractor_account_id
               /\ \E p \in Procs :
                     /\ procs[p].op = "create_delivery"
                     /\ procs[p].account_id = d.contractor_account_id
                     /\ procs'[p].result = "ok"

\* C22: a completed task has exactly one accepted quote and exactly one
\* delivery, which references that quote and its contractor; create_delivery
\* succeeds at most once per task, only for the contractor of the accepted
\* quote and only while the task is in_escrow.
C22_OneDelivery == []CompletedTaskShape /\ [][DeliveryCreated]_vars

C22_Witness ==
    \E t \in TaskIds :
        /\ hire_tasks[t].status = "completed"
        /\ Cardinality(DeliveriesOf(hire_deliveries, t)) = 1
        /\ Cardinality(QuotesOf(hire_quotes, t, "rejected")) = 1
        /\ \E p \in Procs :
              /\ procs[p].pc = "done" /\ procs[p].handler = "hire_deliver"
              /\ procs[p].result = "HireInvalidState"

\* the store operation that moved task t from status `from` to status `to`
\* in this step, and the account it ran for
TaskMoveBy(t, from, to, op, a) ==
    /\ hire_tasks[t].status = from
    /\ hire_tasks'[t].status = to
    /\ \E p \in Procs :
          /\ procs[p].op = op /\ procs[p].task = t
          /\ procs[p].account_id = a
          /\ procs'[p].pc = "done" /\ procs'[p].result = "ok"

\* a step that changes the status of task t is one step along
\* open, in_escrow, delivered, completed, made by accept_quote of the buyer,
\* create_delivery of the accepted quote's contractor, or confirm_delivery
\* of the buyer
TaskStatusStep(t) ==
    hire_tasks'[t].status # hire_tasks[t].status =>
        \/ TaskMoveBy(t, "open", "in_escrow", "accept_quote",
                      hire_tasks[t].buyer_account_id)
        \/ \E q \in QuotesOf(hire_quotes, t, "accepted") :
              TaskMoveBy(t, "in_escrow", "delivered", "create_delivery",
                         hire_quotes[q].contractor_account_id)
        \/ TaskMoveBy(t, "delivered", "completed", "confirm_delivery",
                      hire_tasks[t].buyer_account_id)

\* C23: the status of a task only moves open -> in_escrow -> delivered ->
\* completed, one step at a time, by accept_quote of the buyer,
\* create_delivery of the accepted contractor and confirm_delivery of the
\* buyer; it never moves backwards, never skips a status, never leaves
\* completed.
C23_TaskStatusOrder == [][\A t \in TaskIds : TaskStatusStep(t)]_vars

C23_Witness ==
    \E t \in TaskIds, p \in Procs, r \in Procs :
        /\ hire_tasks[t].status = "completed"
        /\ procs[p].pc = "done" /\ procs[p].handler = "hire_confirm"
        /\ procs[p].result = "ok"
        /\ procs[p].token = hire_tasks[t].buyer_account_id
        /\ procs[r].pc = "done" /\ procs[r].handler = "hire_confirm"
        /\ procs[r].result = "HireForbidden"
        /\ procs[r].token # hire_tasks[t].buyer_account_id

\* a step that changes the status of quote q inserts it as pending, or
\* moves it from pending to accepted or rejected
QuoteStatusStep(q) ==
    hire_quotes'[q].status # hire_quotes[q].status =>
        \/ /\ hire_quotes[q].status = "absent"
           /\ hire_quotes'[q].status = "pending"
        \/ /\ hire_quotes[q].status = "pending"
           /\ hire_quotes'[q].status \in {"accepted", "rejected"}

\* C24: every quote is created pending and changes its status at most once,
\* to accepted or to rejected; an accepted or rejected quote never changes
\* its status again.
C24_QuoteStatusOnce == [][\A q \in QuoteIds : QuoteStatusStep(q)]_vars

C24_Witness ==
    \E q \in QuoteIds, x \in QuoteIds, p \in Procs :
        /\ hire_quotes[q].status = "accepted"
        /\ hire_quotes[q].price_sats = RaisedPrice
        /\ hire_quotes[x].status = "rejected"
        /\ procs[p].pc = "done" /\ procs[p].handler = "hire_update_quote"
        /\ procs[p].result = "HireInvalidState"

\* the accept_quote call of process p raises in this step
AcceptFails(p) ==
    /\ procs[p].pc \in AcceptPcs
    /\ Stepped(p)
    /\ procs'[p].result \in {"HireNotFound", "HireForbidden", "HireInvalidState",
                             "HireInsufficientBalance"}

\* a step of an accept_quote call that is not its commit
AcceptBeforeCommit(p) ==
    /\ procs[p].pc \in AcceptPcs \ {"aq_commit"}
    /\ Stepped(p)

\* C25: an accept_quote that fails (task or quote not found, caller not the
\* buyer, task not open, quote not pending, insufficient balance) leaves the
\* buyer's balance, the usage log, the status of every quote of the task
\* and the status of the task unchanged: the call writes nothing before its
\* commit, and the step in which it raises writes nothing.
C25_FailedAcceptFrame ==
    [][\A p \in Procs :
          (AcceptFails(p) \/ AcceptBeforeCommit(p))
          => UNCHANGED <<accounts, usage_log, hire_quotes, hire_tasks>>]_vars

\* accepts failed for insufficient balance and for a caller who is not the
\* buyer, and the task, the balances and the log are as they were
C25_Witness ==
    \E p \in Procs, r \in Procs, t \in TaskIds :
        /\ procs[p].pc = "done" /\ procs[p].handler = "hire_accept_quote"
        /\ procs[p].result = "HireInsufficientBalance"
        /\ procs[r].pc = "done" /\ procs[r].handler = "hire_accept_quote"
        /\ procs[r].result = "HireForbidden"
        /\ hire_tasks[t].status = "open"
        /\ UsageCount(usage_log, EscrowLock(t)) = 0
        /\ accounts["A"].balance_sats = PostedPrice + 1

\* the error responses of the marketplace handlers with status 400, 401,
\* 403, 404 and 409
MarketplaceErrors ==
    {"400 invalid_request", "400 hire_error", "400 invalid_payment",
     "400 payment_already_used", "401 invalid_token", "401 invalid_l402",
     "401 account_required", "403 forbidden", "404 not_found",
     "409 invalid_state"}

\* C26: a POST tasks, POST quotes or POST accept request that ends in an
\* error response (400, 401, 403, 404, 409) has taken no payment: it has
\* debited no balance and marked no L402 payment hash used.
C26_ErrorsTakeNoPayment ==
    \A p \in Procs :
        (/\ procs[p].pc = "done"
         /\ procs[p].handler \in {"hire_create_task", "hire_create_quote",
                                  "hire_accept_quote"}
         /\ procs[p].resp \in MarketplaceErrors)
        => (procs[p].debits = 0 /\ procs[p].marks = 0)

-----------------------------------------------------------------------------
(* server.py hire_collect: the refund of a failed payment (SpecCollect) *)

\* the contractor B (balance 20) and the buyer A (balance 3) withdraw, two
\* requests at a time; the payment and the refund can each fail
NextCollect ==
    \E p \in Procs :
        \/ hire_collect(p, {TokenOf("A"), TokenOf("B")}, {PostedPrice, CollectAmount})
        \/ DebitAccountLock(p)
        \/ DebitAccountCommit(p)
        \/ CollectPay(p)
        \/ CollectRefund(p, BOOLEAN)

SpecCollect == InitHire /\ [][NextCollect]_vars

\* the refund of process p runs in this step, and nothing but the debit of
\* p's request has moved the balance since that debit read it
RefundStep(p) ==
    /\ procs[p].pc = "refund"
    /\ Stepped(p)
    /\ accounts[procs[p].account_id].balance_sats
          = procs[p].balance - procs[p].amount

\* C27 as the claim words it: after the debit of a collect and the failure
\* of the payment the account is credited back, and the balance is the
\* balance before the request.
C27_AsClaimed ==
    [][\A p \in Procs :
          RefundStep(p)
          => accounts'[procs[p].account_id].balance_sats = procs[p].balance]_vars

\* C27 (as amended): after the debit of a collect and the failure of the
\* payment the response is 502 payment_failed; when credit_account returns,
\* the balance is the balance before the request; when credit_account
\* raises, the exception is swallowed and the balance stays debited.
C27_RefundBestEffort ==
    [][\A p \in Procs :
          RefundStep(p)
          => /\ procs'[p].pc = "done"
             /\ procs'[p].resp = "502 payment_failed"
             /\ accounts'[procs[p].account_id].balance_sats =
                   IF procs'[p].result = "ok" THEN procs[p].balance
                   ELSE procs[p].balance - procs[p].amount
             /\ \A a \in AccountIds \ {procs[p].account_id} :
                   accounts'[a] = accounts[a]]_vars

\* one failed collect was refunded and another was not
C27_Witness ==
    \E p \in Procs, r \in Procs :
        /\ procs[p].pc = "done" /\ procs[p].handler = "hire_collect"
        /\ procs[p].resp = "502 payment_failed" /\ procs[p].result = "ok"
        /\ procs[r].pc = "done" /\ procs[r].handler = "hire_collect"
        /\ procs[r].resp = "502 payment_failed" /\ procs[r].result = "Exception"
        /\ procs[p].token = "B" /\ procs[r].token = "B"
        /\ accounts["B"].balance_sats = 2 * PostQuotePrice - CollectAmount

-----------------------------------------------------------------------------
(* The full lifecycle of a task with X-Token auth only (SpecLifecycle) *)

\* the balances the buyer A and the contractor B start with
BuyerFunds == PostTaskPrice + RaisedPrice
ContractorFunds == 2 * PostQuotePrice

InitLifecycle ==
    /\ InitProcess
    /\ daily = [date |-> 0 - 1, counters |-> [x \in Paths |-> 0]]
    /\ accounts = [a \in AccountIds |->
                     [present |-> a # "C",
                      balance_sats |-> IF a = "A" THEN BuyerFunds
                                       ELSE IF a = "B" THEN ContractorFunds
                                       ELSE 0]]
    /\ usage_log = EmptyBag
    /\ topup_invoices = [h \in InvoiceHashes |->
                           [status |-> "absent", account_id |-> None, amount_sats |-> 0]]
    /\ hire_tasks = [t \in TaskIds |-> AbsentTask]
    /\ hire_quotes = [q \in QuoteIds |-> AbsentQuote]
    /\ hire_deliveries = <<>>
    /\ hire_messages = <<>>

\* seed_marketplace.py: the buyer posts a task, the contractor quotes, the
\* buyer accepts, the contractor delivers, the buyer confirms
NextLifecycle ==
    \E p \in Procs :
        \/ hire_create_task(p, {TokenOf("A")}, {TRUE})
        \/ hire_create_quote(p, {TokenOf("B")}, {PostedPrice, RaisedPrice})
        \/ hire_accept_quote(p, {TokenOf("A")})
        \/ hire_deliver(p, {TokenOf("B")})
        \/ hire_confirm(p, {TokenOf("A")})
        \/ DebitTokenLock(p)
        \/ DebitTokenCommit(p)
        \/ CreateTaskInsert(p)
        \/ CreateQuoteRead(p)
        \/ CreateQuoteInsert(p)
        \/ AcceptLockTask(p)
        \/ AcceptLockQuote(p)
        \/ AcceptLockAccount(p)
        \/ AcceptCommit(p)
        \/ DeliverLockTask(p)
        \/ DeliverCommit(p)
        \/ ConfirmLockTask(p)
        \/ ConfirmReadQuote(p)
        \/ ConfirmCommit(p)
        \/ Challenge(p, {PhoenixInvoice(H2)})

SpecLifecycle == InitLifecycle /\ [][NextLifecycle]_vars

\* task t went through its whole life, and the two accounts were charged
\* for nothing but one task and one quote
LifecycleOnly(t) ==
    /\ hire_tasks[t].status = "completed"
    /\ UsageCount(usage_log, <<"hire:post_task">>) = 1
    /\ UsageCount(usage_log, <<"hire:post_quote">>) = 1

\* C28: after a full lifecycle with X-Token auth only (the buyer posts a
\* task, the contractor posts a quote of price p, the buyer accepts, the
\* contractor delivers, the buyer confirms) and no other operation on the
\* two accounts, the buyer's balance is the initial balance minus 50 minus
\* p and the contractor's is the initial balance minus 10 plus p.
C28_LifecycleBalances ==
    \A t \in TaskIds :
        LifecycleOnly(t) =>
            \E q \in QuotesOf(hire_quotes, t, "accepted") :
                LET price == hire_quotes[q].price_sats
                    buyer == hire_tasks[t].buyer_account_id
                    contractor == hire_quotes[q].contractor_account_id
                IN  /\ accounts[buyer].balance_sats
                          = BuyerFunds - PostTaskPrice - price
                    /\ accounts[contractor].balance_sats
                          = ContractorFunds - PostQuotePrice + price

C28_Witness ==
    \E t \in TaskIds, q \in QuoteIds :
        /\ LifecycleOnly(t)
        /\ hire_quotes[q].status = "accepted"
        /\ hire_quotes[q].price_sats = RaisedPrice
        /\ accounts["A"].balance_sats = 0
        /\ accounts["B"].balance_sats = ContractorFunds - PostQuotePrice + RaisedPrice

-----------------------------------------------------------------------------
(* server.py: the daily cap of the gateway over several days (SpecDaily) *)

\* the last UTC day the clock reaches
MaxDay == 1

\* midnight UTC passes
NextDay ==
    /\ Today(now) < MaxDay
    /\ now' = 86400 * (Today(now) + 1)
    /\ UNCHANGED <<used_hashes, daily, accounts, usage_log, topup_invoices,
                   hire_tasks, hire_quotes, hire_deliveries,
                   hire_messages, locks, procs,
                   admissions>>

\* gateway requests with the X-Token of A, with a paid L402, and one whose
\* body is not valid
DailyRequests ==
    {x @@ [price |-> GatewayPrice, body_ok |-> TRUE] :
        x \in {TokenOf("A"), L402Of(PaidMacaroon, Preimage1)}}
    \cup {TokenOf("A") @@ [price |-> GatewayPrice, body_ok |-> FALSE]}

\* requests arrive for a path while its counter of the day is within
\* DailyHeadroom of zero or of the limit
DailyRequest(p, R, path) ==
    /\ Today(now) = daily.date
          => \/ daily.counters[path] >= DailyLimit(path) - DailyHeadroom
             \/ daily.counters[path] < DailyHeadroom
    /\ GatewayOn(p, R, {path})

NextDaily ==
    \/ NextDay
    \/ \E p \in Procs :
        \/ \E path \in Paths : DailyRequest(p, DailyRequests, path)
        \/ ProxyUpstream(p)
        \/ DebitTokenLock(p)
        \/ DebitTokenCommit(p)

SpecDaily == InitGate /\ [][NextDaily]_vars

\* no counter exceeds the limit of its path
WithinLimits == \A x \in Paths : daily.counters[x] <= DailyLimit(x)

\* the counters a request finds: those of today, or none on a new UTC date
CountersFound ==
    IF Today(now) # daily.date THEN [y \in Paths |-> 0] ELSE daily.counters

\* a gateway request arrives at process p in this step
GatewayArrives(p) ==
    /\ Ready(p)
    /\ Stepped(p)
    /\ procs'[p].handler = "gateway"

\* what the arrival of a gateway request of process p for path x does to the
\* daily cap
CapOutcome(p, x) ==
    IF procs'[p].resp = "400 invalid_request"
    THEN UNCHANGED daily
    ELSE IF CountersFound[x] >= DailyLimit(x)
    THEN /\ daily' = [date |-> Today(now), counters |-> CountersFound]
         /\ procs'[p].pc = "done"
         /\ procs'[p].resp = "429 daily_limit_reached"
         /\ procs'[p].debits = 0 /\ procs'[p].marks = 0
         /\ ~procs'[p].forwarded
         /\ UNCHANGED <<accounts, usage_log, used_hashes>>
    ELSE /\ daily' = [date |-> Today(now),
                      counters |-> [CountersFound EXCEPT ![x] = @ + 1]]
         /\ procs'[p].resp # "429 daily_limit_reached"

\* C29: per endpoint path and UTC day at most limit(path) gateway requests
\* pass the daily-cap step (DAILY_RATE_LIMITS, or the default 1000); every
\* further request is answered 429 daily_limit_reached without payment and
\* without forwarding; the first request on a new UTC date resets all
\* counters to zero.
C29_DailyCap ==
    /\ []WithinLimits
    /\ [][\A p \in Procs :
             GatewayArrives(p) => CapOutcome(p, procs'[p].path)]_vars

\* on the new day one video request has passed, after a request with the
\* token of A was refused the day before and A was not charged
C29_Witness ==
    /\ daily.date = 1
    /\ daily.counters[VideoPath] = 1
    /\ daily.counters[ChatPath] = 0
    /\ \E p \in Procs :
          /\ procs[p].resp = "429 daily_limit_reached"
          /\ procs[p].token = "A"
    /\ accounts["A"].balance_sats = GatewayPrice + 1

-----------------------------------------------------------------------------
(* Row locks: no deadlock, every transaction ends (SpecLocks) *)

\* the positions inside the transactions of accept_quote, create_delivery,
\* confirm_delivery, debit_token_balance, debit_account,
\* claim_topup_invoice and inside update_quote
TxPcs ==
    {"aq_task", "aq_quote", "aq_account", "aq_commit", "dl_task", "dl_commit",
     "cd_task", "cd_quote", "cd_commit", "dtb_lock", "dtb_commit", "da_lock",
     "da_commit", "cl_invoice", "cl_account", "cl_commit", "uq_read",
     "uq_update"}

InTx(p) == procs[p].pc \in TxPcs

\* the next statement of the transaction of process p
TxStep(p) ==
    \/ DebitTokenLock(p)
    \/ DebitTokenCommit(p)
    \/ DebitAccountLock(p)
    \/ DebitAccountCommit(p)
    \/ UpdateQuoteRead(p)
    \/ UpdateQuoteWrite(p)
    \/ AcceptLockTask(p)
    \/ AcceptLockQuote(p)
    \/ AcceptLockAccount(p)
    \/ AcceptCommit(p)
    \/ DeliverLockTask(p)
    \/ DeliverCommit(p)
    \/ ConfirmLockTask(p)
    \/ ConfirmReadQuote(p)
    \/ ConfirmCommit(p)
    \/ ClaimLockInvoice(p)
    \/ ClaimLockAccount(p)
    \/ ClaimCommit(p)

\* the stages of the life of task t1 at which the requests arrive
Stages == {"open", "in_escrow", "delivered"}

\* the database at a stage: buyer A's task t1 with the quote q1 of
\* contractor B and, when B has posted a second one, q2; both are pending
\* while the task is open, then q1 is accepted and q2 rejected; the fees and
\* the escrow are in the usage log, the delivery is stored once the task is
\* delivered; the top-up invoice H1 of A is pending
InitLocks ==
    /\ InitProcess
    /\ daily = [date |-> 0 - 1, counters |-> [x \in Paths |-> 0]]
    /\ topup_invoices = [h \in InvoiceHashes |->
                           [status |-> "pending", account_id |-> "A",
                            amount_sats |-> RaisedPrice]]
    /\ \E stage \in Stages, second \in BOOLEAN :
          /\ hire_tasks = [t \in TaskIds |->
                             [status |-> stage, buyer_account_id |-> "A"]]
          /\ hire_quotes = [q \in QuoteIds |->
                              IF q # "q1" /\ ~second THEN AbsentQuote
                              ELSE [status |-> IF stage = "open" THEN "pending"
                                               ELSE IF q = "q1" THEN "accepted"
                                               ELSE "rejected",
                                    task_id |-> "t1",
                                    contractor_account_id |-> "B",
                                    price_sats |-> PostedPrice]]
          /\ accounts = [a \in AccountIds |->
                           [present |-> a # "C",
                            balance_sats |->
                               IF a = "A"
                               THEN (IF stage = "open" THEN PostedPrice + 1 ELSE 1)
                               ELSE IF a = "B" THEN 2 * PostQuotePrice ELSE 0]]
          /\ usage_log =
                SetToBag({UsageRow("A", <<"hire:post_task">>, PostTaskPrice)})
                (+) [r \in {UsageRow("B", <<"hire:post_quote">>, PostQuotePrice)}
                       |-> IF second THEN 2 ELSE 1]
                (+) (IF stage = "open" THEN EmptyBag
                     ELSE SetToBag({UsageRow("A", EscrowLock("t1"), PostedPrice)}))
          /\ hire_deliveries =
                IF stage = "delivered"
                THEN <<[task_id |-> "t1", quote_id |-> "q1",
                        contractor_account_id |-> "B"]>>
                ELSE <<>>
          /\ hire_messages = <<>>

\* a request arrives at a process that has handled none
Idle(p) == procs[p].pc = "idle"

\* two concurrent requests, any two of the marketplace and ledger
\* operations, and the handlers' steps outside the database
NextLocks ==
    \E p \in Procs :
        \/ Idle(p) /\ hire_create_quote(p, {TokenOf("B")}, {PostedPrice})
        \/ Idle(p) /\ hire_accept_quote(p, {TokenOf("A")})
        \/ Idle(p) /\ hire_update_quote(p, {TokenOf("B")}, {RaisedPrice})
        \/ Idle(p) /\ hire_deliver(p, {TokenOf("B")})
        \/ Idle(p) /\ hire_confirm(p, {TokenOf("A")})
        \/ Idle(p) /\ hire_collect(p, {TokenOf("B")}, {CollectAmount})
        \/ Idle(p) /\ claim_topup(p, {Preimage1}, {"A"})
        \/ CreateQuoteRead(p)
        \/ CreateQuoteInsert(p)
        \/ CollectPay(p)
        \/ CollectRefund(p, {TRUE})
        \/ Challenge(p, {PhoenixInvoice(H2)})
        \/ TxStep(p)

\* the database runs every open transaction: a statement that can go on,
\* because no other transaction holds a row it needs, does go on
SpecLocks ==
    InitLocks /\ [][NextLocks]_vars /\ \A p \in Procs : WF_vars(TxStep(p))

\* while a transaction is open, some open transaction can take its next step
NoDeadlock ==
    (\E p \in Procs : InTx(p)) => \E p \in Procs : InTx(p) /\ ENABLED TxStep(p)

\* process p writes the existing row of quote x in this step without
\* having locked it before, while it holds the row lock of an account: the
\* UPDATE takes the quote's row lock after the account's
LocksQuoteAfterAccount(p, x) ==
    /\ Stepped(p)
    /\ hire_quotes[x].status # "absent"
    /\ hire_quotes'[x] # hire_quotes[x]
    /\ locks[QuoteRow(x)] # p
    /\ \E a \in AccountIds : locks[AccountRow(a)] = p

\* C30 as the claim words it: no deadlock, the row locks being always
\* acquired in the order task, quote, account.
C30_AsClaimed ==
    /\ []NoDeadlock
    /\ [][\A p \in Procs, x \in QuoteIds : ~LocksQuoteAfterAccount(p, x)]_vars

\* the one place where a quote's row is locked after an account's: the
\* "reject others" UPDATE of accept_quote, on pending quotes of the task
\* whose row the transaction has locked first
RejectOthers(p, x) ==
    /\ procs[p].pc = "aq_commit"
    /\ hire_quotes[x].status = "pending"
    /\ hire_quotes'[x].status = "rejected"
    /\ locks[TaskRow(hire_quotes[x].task_id)] = p

\* C30 (as amended): no set of concurrent ledger and marketplace
\* transactions (accept_quote, create_delivery, confirm_delivery,
\* debit_token_balance, debit_account, claim_topup_invoice, update_quote)
\* deadlocks, and every transaction eventually commits or aborts; row locks
\* are acquired in the order task, quote, account, except that accept_quote
\* locks the other pending quotes of its task after the buyer's account.
C30_NoDeadlock ==
    /\ []NoDeadlock
    /\ [][\A p \in Procs, x \in QuoteIds :
             LocksQuoteAfterAccount(p, x) => RejectOthers(p, x)]_vars
    /\ \A p \in Procs : InTx(p) ~> ~InTx(p)

\* an accept_quote holds the task, the quote and the buyer's account and is
\* about to reject a second pending quote, while another transaction waits
\* for the row of the task
C30_Witness ==
    \E p \in Procs, r \in Procs :
        /\ procs[p].pc = "aq_commit"
        /\ QuotesOf(hire_quotes, procs[p].task, "pending") \ {procs[p].quote} # {}
        /\ InTx(r) /\ ~ENABLED TxStep(r)

-----------------------------------------------------------------------------
(* update_quote, create_quote and the escrow under interleaving *)

\* C31: update_quote changes the price_sats of a quote only while the quote
\* is pending: under any interleaving with accept_quote, the price_sats of
\* a quote that is accepted or rejected never changes.
C31_SettledQuoteFrozen ==
    [][\A q \in QuoteIds :
          hire_quotes[q].status \in {"accepted", "rejected"}
          => hire_quotes'[q].price_sats = hire_quotes[q].price_sats]_vars

-----------------------------------------------------------------------------
(* Quote threads: send_quote_message and get_quote_messages *)

MaxMessages == 2

\* "insert into hire_messages (task_id, quote_id, sender_account_id, body)
\* .. returning id": the id is the next value of the bigserial
NewMessage(msgs, task_id, quote_id, sender) ==
    [id |-> Len(msgs) + 1, task_id |-> task_id, quote_id |-> quote_id,
     sender_account_id |-> sender]

\* HireStore.send_quote_message, the three SELECTs and the checks on what
\* they returned; no transaction is open and no row is locked
SendMessageRead(p) ==
    LET pr == procs[p]
        q == pr.quote
    IN  /\ pr.pc = "sm_read"
        /\ SetProc(p,
              IF hire_tasks[pr.task].status = "absent"
              THEN Raise(pr, "HireNotFound")
              ELSE IF ~(QuotePresent(q) /\ hire_quotes[q].task_id = pr.task)
              THEN Raise(pr, "HireNotFound")
              ELSE IF hire_quotes[q].status \notin {"pending", "accepted"}
              THEN Raise(pr, "HireInvalidState")
              ELSE IF pr.account_id \notin
                         {hire_tasks[pr.task].buyer_account_id,
                          hire_quotes[q].contractor_account_id}
              THEN Raise(pr, "HireForbidden")
              ELSE [pr EXCEPT !.pc = "sm_insert"])
        /\ UNCHANGED <<now, used_hashes, daily, accounts, usage_log,
                       topup_invoices, hire_tasks, hire_quotes, hire_deliveries,
                       hire_messages, locks, admissions>>

\* HireStore.send_quote_message, the INSERT: its foreign keys wait for the
\* transactions that hold the task, the quote and the sender
SendMessageInsert(p) ==
    LET pr == procs[p]
    IN  /\ pr.pc = "sm_insert"
        /\ Free(TaskRow(pr.task), p)
        /\ Free(QuoteRow(pr.quote), p)
        /\ Free(AccountRow(pr.account_id), p)
        /\ hire_messages' = Append(hire_messages,
               NewMessage(hire_messages, pr.task, pr.quote, pr.account_id))
        /\ SetProc(p, Return([pr EXCEPT !.result = "ok", !.performed = TRUE]))
        /\ UNCHANGED <<now, used_hashes, daily, accounts, usage_log,
                       topup_invoices, hire_tasks, hire_quotes, hire_deliveries,
                       locks, admissions>>

\* HireStore.get_quote_messages, the three SELECTs and the check of the caller
GetMessagesRead(p) ==
    LET pr == procs[p]
        q == pr.quote
    IN  /\ pr.pc = "gm_read"
        /\ SetProc(p,
              IF hire_tasks[pr.task].status = "absent"
              THEN Raise(pr, "HireNotFound")
              ELSE IF ~(QuotePresent(q) /\ hire_quotes[q].task_id = pr.task)
              THEN Raise(pr, "HireNotFound")
              ELSE IF pr.account_id \notin
                         {hire_tasks[pr.task].buyer_account_id,
                          hire_quotes[q].contractor_account_id}
              THEN Raise(pr, "HireForbidden")
              ELSE [pr EXCEPT !.pc = "gm_select"])
        /\ UNCHANGED <<now, used_hashes, daily, accounts, usage_log,
                       topup_invoices, hire_tasks, hire_quotes, hire_deliveries,
                       hire_messages, locks, admissions>>

SelectMessages_FromSince(msgs, quote_id, since_id) ==
    SelectSeq(msgs, LAMBDA m : m.quote_id = quote_id /\ m.id >= since_id)

\* "select .. from hire_messages where quote_id = $1 and id > $2 order by
\* id", over the table in id order
SelectMessages(msgs, quote_id, since_id) ==
    SelectSeq(msgs, LAMBDA m : m.quote_id = quote_id /\ m.id > since_id)

\* HireStore.get_quote_messages, the SELECT of the messages
GetMessagesSelect(p) ==
    LET pr == procs[p]
    IN  /\ pr.pc = "gm_select"
        /\ SetProc(p, Return([pr EXCEPT
               !.result = "ok",
               !.messages = SelectMessages(hire_messages, pr.quote,
                                           pr.since_id)]))
        /\ UNCHANGED <<now, used_hashes, daily, accounts, usage_log,
                       topup_invoices, hire_tasks, hire_quotes, hire_deliveries,
                       hire_messages, locks, admissions>>

\* POST /api/v1/ai-for-hire/tasks/{task_id}/quotes/{quote_id}/messages
hire_send_quote_message(p, R) ==
    /\ Ready(p)
    /\ Len(hire_messages) < MaxMessages
    /\ \E h \in R, t \in TaskIds, q \in QuoteIds, ok \in BOOLEAN :
          HireIdentified(p, [NewRequest("hire_send_quote_message", h) EXCEPT
                                !.task = t, !.quote = q, !.body_ok = ok],
                         "send_quote_message", "sm_read", FALSE)
    /\ UNCHANGED <<now, daily, accounts, usage_log, topup_invoices, hire_tasks,
                   hire_quotes, hire_deliveries, hire_messages, locks>>

\* GET /api/v1/ai-for-hire/tasks/{task_id}/quotes/{quote_id}/messages, with
\* since_id what int() made of the query parameter, 0 when it made nothing
hire_get_quote_messages(p, R, since) ==
    /\ Ready(p)
    /\ \E h \in R, t \in TaskIds, q \in QuoteIds, since_id \in since :
          HireIdentified(p, [NewRequest("hire_get_quote_messages", h) EXCEPT
                                !.task = t, !.quote = q, !.since_id = since_id],
                         "get_quote_messages", "gm_read", FALSE)
    /\ UNCHANGED <<now, daily, accounts, usage_log, topup_invoices, hire_tasks,
                   hire_quotes, hire_deliveries, hire_messages, locks>>

\* a task of A with a pending quote of B and, when second, one of C
InitThread ==
    /\ InitProcess
    /\ daily = [date |-> 0 - 1, counters |-> [x \in Paths |-> 0]]
    /\ accounts = [a \in AccountIds |->
                     [present |-> TRUE,
                      balance_sats |-> IF a = "A" THEN PostedPrice + 1 ELSE 0]]
    /\ topup_invoices = [h \in InvoiceHashes |->
                           [status |-> "pending", account_id |-> "A",
                            amount_sats |-> RaisedPrice]]
    /\ hire_tasks = [t \in TaskIds |->
                       [status |-> "open", buyer_account_id |-> "A"]]
    /\ hire_deliveries = <<>>
    /\ hire_messages = <<>>
    /\ \E second \in BOOLEAN :
          /\ hire_quotes = [q \in QuoteIds |->
                 IF q = "q1"
                 THEN [status |-> "pending", task_id |-> "t1",
                       contractor_account_id |-> "B", price_sats |-> PostedPrice]
                 ELSE IF second
                 THEN [status |-> "pending", task_id |-> "t1",
                       contractor_account_id |-> "C", price_sats |-> RaisedPrice]
                 ELSE AbsentQuote]
          /\ usage_log = SetToBag(
                 {UsageRow("A", <<"hire:post_task">>, PostTaskPrice),
                  UsageRow("B", <<"hire:post_quote">>, PostQuotePrice)}
                 \cup (IF second
                       THEN {UsageRow("C", <<"hire:post_quote">>, PostQuotePrice)}
                       ELSE {}))

Senders == {TokenOf("A"), TokenOf("B"), TokenOf("C")}

NextThread ==
    \E p \in Procs :
        \/ hire_send_quote_message(p, Senders)
        \/ hire_get_quote_messages(p, {TokenOf("A"), TokenOf("C")}, {0})
        \/ hire_accept_quote(p, {TokenOf("A")})
        \/ SendMessageRead(p)
        \/ SendMessageInsert(p)
        \/ GetMessagesRead(p)
        \/ GetMessagesSelect(p)
        \/ AcceptLockTask(p)
        \/ AcceptLockQuote(p)
        \/ AcceptLockAccount(p)
        \/ AcceptCommit(p)
        \/ Challenge(p, {PhoenixInvoice(H2)})

SpecThread == InitThread /\ [][NextThread]_vars

\* the message a step appends to hire_messages
Appended == hire_messages'[Len(hire_messages')]

\* C32: every stored message of a quote thread was sent by the buyer of the
\* task or the contractor of the quote, names a quote of the named task, and
\* was appended while the quote was pending or accepted, also when
\* send_quote_message runs next to an accept_quote that rejects the quote;
\* and messages are returned to those two accounts only.
C32_ThreadIntegrity ==
    [][/\ hire_messages' # hire_messages =>
             /\ hire_messages' = Append(hire_messages, Appended)
             /\ Appended.sender_account_id \in
                   {hire_tasks[Appended.task_id].buyer_account_id,
                    hire_quotes[Appended.quote_id].contractor_account_id}
             /\ hire_quotes[Appended.quote_id].task_id = Appended.task_id
             /\ hire_quotes[Appended.quote_id].status \in {"pending", "accepted"}
       /\ \A p \in Procs :
             (procs[p].pc = "gm_select" /\ procs'[p].resp = "200 ok") =>
                 procs[p].account_id \in
                    {hire_tasks[procs[p].task].buyer_account_id,
                     hire_quotes[procs[p].quote].contractor_account_id}]_vars

\* the same without the status of the quote at the time of the INSERT
C32_SendersAndReaders ==
    [][/\ hire_messages' # hire_messages =>
             /\ hire_messages' = Append(hire_messages, Appended)
             /\ Appended.sender_account_id \in
                   {hire_tasks[Appended.task_id].buyer_account_id,
                    hire_quotes[Appended.quote_id].contractor_account_id}
             /\ hire_quotes[Appended.quote_id].task_id = Appended.task_id
       /\ \A p \in Procs :
             (procs[p].pc = "gm_select" /\ procs'[p].resp = "200 ok") =>
                 procs[p].account_id \in
                    {hire_tasks[procs[p].task].buyer_account_id,
                     hire_quotes[procs[p].quote].contractor_account_id}]_vars

\* the contractor of quote q1 writes to threads and the buyer reads them,
\* each read from any since_id up to the largest id a thread can hold
NextInbox ==
    \E p \in Procs :
        \/ hire_send_quote_message(p, {TokenOf("B")})
        \/ hire_get_quote_messages(p, {TokenOf("A")}, 0 .. MaxMessages)
        \/ SendMessageRead(p)
        \/ SendMessageInsert(p)
        \/ GetMessagesRead(p)
        \/ GetMessagesSelect(p)

SpecInbox == InitThread /\ [][NextInbox]_vars

\* the ids of the messages of quote q in the table
ThreadIds(msgs, q) == {msgs[i].id : i \in {j \in DOMAIN msgs : msgs[j].quote_id = q}}

\* what the claim says of a list got returned for quote q and since_id
ExactlySince(got, msgs, q, since_id) ==
    /\ {got[i] : i \in DOMAIN got} =
          {msgs[i] : i \in {j \in DOMAIN msgs : /\ msgs[j].quote_id = q
                                                 /\ msgs[j].id > since_id}}
    /\ \A i, j \in DOMAIN got : i < j => got[i].id < got[j].id
    /\ (\A n \in ThreadIds(msgs, q) : n <= since_id) => got = <<>>

\* C33: get_quote_messages(task, quote, caller, since_id) returns exactly the
\* messages of that quote whose id is greater than since_id, in ascending id
\* order; with since_id the largest id of the thread it returns the empty list.
C33_MessagesSince ==
    [][\A p \in Procs :
          (procs[p].pc = "gm_select" /\ procs'[p].pc = "done") =>
              /\ procs'[p].resp = "200 ok"
              /\ ExactlySince(procs'[p].messages, hire_messages,
                              procs[p].quote, procs[p].since_id)]_vars

\* a thread of two messages was read from since_id 1: the answer is the
\* second message alone
C33_Witness ==
    \E p \in Procs :
        /\ procs[p].handler = "hire_get_quote_messages"
        /\ procs[p].resp = "200 ok"
        /\ Len(hire_messages) = 2
        /\ hire_messages[1].quote_id = hire_messages[2].quote_id
        /\ procs[p].messages = <<hire_messages[2]>>

-----------------------------------------------------------------------------
(* create_payment_required: what is refused before the daily cap *)

\* what the handler finds in a request before it looks at the caller:
\* whether _resolve_api_endpoint found the endpoint, whether the body is
\* longer than _max_request_bytes, the content type, what json.loads made of
\* the body, the model it names, its required field, and what
\* _price_for_request did
GoodBody ==
    [configured |-> TRUE, too_large |-> FALSE, is_json |-> TRUE,
     parsed |-> "dict", model |-> "known", field |-> "ok", priced |-> "ok"]

Bodies ==
    {GoodBody,
     [GoodBody EXCEPT !.configured = FALSE],
     [GoodBody EXCEPT !.too_large = TRUE],
     [GoodBody EXCEPT !.parsed = "error"],
     [GoodBody EXCEPT !.field = "missing"],
     [GoodBody EXCEPT !.priced = "LookupError"]}

\* server.py _validate_required_fields for a path with one required field
validate_required_fields(field) ==
    CASE field = "missing" -> "400 missing_required_field"
      [] field = "wrong_type" -> "400 invalid_field_type"
      [] field = "empty" -> "400 invalid_field_value"
      [] OTHER -> ""

\* server.py create_payment_required, lines 1765-1843, for a path that
\* requires JSON: the response it returns, "" when it goes on
validate_request(b) ==
    IF ~b.configured THEN "404 api_not_found"
    ELSE IF b.too_large THEN "413 request_too_large"
    ELSE IF ~b.is_json THEN "400 invalid_request"
    ELSE IF b.parsed # "dict" THEN "400 invalid_request"
    ELSE IF b.model = "unknown" THEN "400 model_not_supported"
    ELSE IF validate_required_fields(b.field) # ""
    THEN validate_required_fields(b.field)
    ELSE IF b.priced = "LookupError" THEN "400 model_not_supported"
    ELSE IF b.priced # "ok" THEN "500 server_error"
    ELSE ""

\* a handler that counts the request against the daily cap before it
\* validates it
create_payment_required_CountFirst(p, R, paths, bodies) ==
    /\ Ready(p)
    /\ \E h \in R, path \in paths, b \in bodies :
          LET pr == [NewRequest("gateway", h) EXCEPT
                        !.path = path, !.price = h.price, !.amount = h.price,
                        !.endpoint = <<"openai", path>>]
          IN  IF validate_request(b) # "" /\ b.configured
              THEN /\ SetProc(p, Respond(pr, validate_request(b)))
                   /\ daily' = check_daily_limit(daily, path, now).daily
                   /\ UNCHANGED <<used_hashes, admissions>>
              ELSE IF validate_request(b) # ""
              THEN /\ SetProc(p, Respond(pr, validate_request(b)))
                   /\ UNCHANGED <<daily, used_hashes, admissions>>
              ELSE GatewayRequest(p, pr)
    /\ UNCHANGED <<now, accounts, usage_log, topup_invoices, hire_tasks,
                   hire_quotes, hire_deliveries, hire_messages, locks>>

\* POST /api/v1/{api_name}/{endpoint_path}: create_payment_required from its
\* first line, lines 1765-1927
create_payment_required(p, R, paths, bodies) ==
    /\ Ready(p)
    /\ \E h \in R, path \in paths, b \in bodies :
          LET pr == [NewRequest("gateway", h) EXCEPT
                        !.path = path, !.price = h.price, !.amount = h.price,
                        !.endpoint = <<"openai", path>>]
          IN  IF validate_request(b) # ""
              THEN /\ SetProc(p, Respond(pr, validate_request(b)))
                   /\ UNCHANGED <<daily, used_hashes, admissions>>
              ELSE GatewayRequest(p, pr)
    /\ UNCHANGED <<now, accounts, usage_log, topup_invoices, hire_tasks,
                   hire_quotes, hire_deliveries, hire_messages, locks>>

ValidatedRequests ==
    {x @@ [price |-> GatewayPrice] :
        x \in {NoHeaders, TokenOf("A"), L402Of(PaidMacaroon, Preimage1)}}

NextValidate ==
    \E p \in Procs :
        \/ create_payment_required(p, ValidatedRequests, {ChatPath}, Bodies)
        \/ ProxyUpstream(p)
        \/ Challenge(p, {PhoenixInvoice(H2)})
        \/ DebitTokenLock(p)
        \/ DebitTokenCommit(p)

SpecValidate == InitGate /\ [][NextValidate]_vars

\* the responses of endpoint resolution, the size check, JSON parsing, the
\* required fields and pricing
Rejections ==
    {"404 api_not_found", "413 request_too_large", "400 invalid_request",
     "400 model_not_supported", "400 missing_required_field",
     "400 invalid_field_type", "400 invalid_field_value"}

\* C34: a gateway request refused by endpoint resolution (404), by the body
\* size (413), or by JSON parsing, required-field validation or pricing (400)
\* creates no invoice, debits nothing, marks no hash and adds nothing to a
\* daily counter.
C34_RejectedTouchesNothing ==
    [][\A p \in Procs :
          (/\ procs'[p] # procs[p]
           /\ procs'[p].handler = "gateway"
           /\ procs'[p].resp \in Rejections) =>
              /\ Ready(p)
              /\ procs'[p].pc = "done"
              /\ procs'[p].challenge = NoMacaroon
              /\ procs'[p].debits = 0
              /\ procs'[p].marks = 0
              /\ ~procs'[p].forwarded
              /\ UNCHANGED <<daily, used_hashes, admissions, accounts,
                             usage_log, topup_invoices>>]_vars

\* a funded token was refused for the size of its body and a paid L402 for
\* a missing field, and the day's counters, the balance of A and the used
\* hashes are what they were
C34_Witness ==
    /\ \E p, r \in Procs :
          /\ procs[p].resp = "413 request_too_large"
          /\ procs[p].token = "A"
          /\ procs[r].resp = "400 missing_required_field"
          /\ procs[r].auth = "L402"
    /\ daily.counters = [x \in Paths |-> DailyLimit(x) - DailyHeadroom]
    /\ accounts["A"].balance_sats = GatewayPrice + 1
    /\ DOMAIN used_hashes.used = {}

-----------------------------------------------------------------------------
(* _proxy_upstream with "stream": true: the relayed response *)

MaxChunks == 2

\* what a streaming proxy call leaves when the request is over
Streamed(pr, resp, upstream) ==
    [Respond(pr, resp) EXCEPT !.upstream = upstream]

\* httpx.AsyncClient(timeout=None), stream_cm.__aenter__() and, on
\* httpx.HTTPError, stream_client.aclose() and the 502 (lines 543-554);
\* otherwise the handler returns the StreamingResponse around stream_chunks(),
\* whose body has not started to run (lines 556-569)
StreamOpen(p) ==
    LET pr == procs[p]
    IN  /\ pr.pc = "proxy"
        /\ \E opened \in BOOLEAN :
              SetProc(p,
                 IF opened
                 THEN [pr EXCEPT !.pc = "st_response",
                                 !.upstream = [NoUpstream EXCEPT
                                                  !.client = "open",
                                                  !.stream = "open"]]
                 ELSE Streamed(pr, "502 upstream_error",
                               [NoUpstream EXCEPT !.client = "closed",
                                                  !.client_closes = 1]))
        /\ UNCHANGED <<now, used_hashes, daily, accounts, usage_log, topup_invoices,
                       hire_tasks, hire_quotes, hire_deliveries,
                       hire_messages, locks, admissions>>

\* the server asks stream_chunks() for its first chunk: the generator enters
\* its try block
StreamStart(p) ==
    LET pr == procs[p]
    IN  /\ pr.pc = "st_response"
        /\ SetProc(p, [pr EXCEPT !.pc = "st_relay"])
        /\ UNCHANGED <<now, used_hashes, daily, accounts, usage_log, topup_invoices,
                       hire_tasks, hire_quotes, hire_deliveries,
                       hire_messages, locks, admissions>>

\* the client is gone before the server asks for the first chunk: the
\* response is dropped with a generator that never ran, so neither its try
\* block nor its finally block runs
StreamDropped(p) ==
    LET pr == procs[p]
    IN  /\ pr.pc = "st_response"
        /\ SetProc(p, Streamed(pr, "disconnected", pr.upstream))
        /\ UNCHANGED <<now, used_hashes, daily, accounts, usage_log, topup_invoices,
                       hire_tasks, hire_quotes, hire_deliveries,
                       hire_messages, locks, admissions>>

\* "async for chunk in upstream_response.aiter_bytes(): yield chunk"
StreamChunk(p) ==
    LET pr == procs[p]
    IN  /\ pr.pc = "st_relay"
        /\ pr.upstream.chunks < MaxChunks
        /\ SetProc(p, [pr EXCEPT !.upstream.chunks = pr.upstream.chunks + 1])
        /\ UNCHANGED <<now, used_hashes, daily, accounts, usage_log, topup_invoices,
                       hire_tasks, hire_quotes, hire_deliveries,
                       hire_messages, locks, admissions>>

\* the loop ends: the stream is exhausted, aiter_bytes raises, or the
\* generator is closed at its yield after the client went away; in each case
\* control passes to the finally block
StreamEnds(p) ==
    LET pr == procs[p]
    IN  /\ pr.pc = "st_relay"
        /\ \E why \in {"200 upstream", "upstream_error", "disconnected"} :
              SetProc(p, [pr EXCEPT !.pc = "st_aexit", !.result = why])
        /\ UNCHANGED <<now, used_hashes, daily, accounts, usage_log, topup_invoices,
                       hire_tasks, hire_quotes, hire_deliveries,
                       hire_messages, locks, admissions>>

\* "await stream_client.aclose()" and the end of the generator
StreamClientClose(pr) ==
    Streamed(pr, pr.result,
             [pr.upstream EXCEPT !.client = "closed",
                                 !.client_closes = pr.upstream.client_closes + 1])

\* finally: "await stream_cm.__aexit__(None, None, None)"
StreamAexit(p) ==
    LET pr == procs[p]
    IN  /\ pr.pc = "st_aexit"
        /\ SetProc(p, [pr EXCEPT
               !.pc = "st_aclose",
               !.upstream = [pr.upstream EXCEPT
                                !.stream = "closed",
                                !.stream_closes = pr.upstream.stream_closes + 1]])
        /\ UNCHANGED <<now, used_hashes, daily, accounts, usage_log, topup_invoices,
                       hire_tasks, hire_quotes, hire_deliveries,
                       hire_messages, locks, admissions>>

\* finally: "await stream_client.aclose()"
StreamAclose(p) ==
    LET pr == procs[p]
    IN  /\ pr.pc = "st_aclose"
        /\ SetProc(p, StreamClientClose(pr))
        /\ UNCHANGED <<now, used_hashes, daily, accounts, usage_log, topup_invoices,
                       hire_tasks, hire_quotes, hire_deliveries,
                       hire_messages, locks, admissions>>

\* the steps of a streaming proxy call that the event loop and the server
\* take on their own
StreamStep(p) ==
    \/ StreamOpen(p)
    \/ StreamStart(p)
    \/ StreamDropped(p)
    \/ StreamChunk(p)
    \/ StreamEnds(p)
    \/ StreamAexit(p)
    \/ StreamAclose(p)

StreamRequests ==
    {x @@ [price |-> GatewayPrice, body_ok |-> TRUE] :
        x \in {TokenOf("A"), L402Of(PaidMacaroon, Preimage1)}}

\* each connection serves one chat completion with "stream": true
NextStream ==
    \E p \in Procs :
        \/ Idle(p) /\ Gateway(p, StreamRequests)
        \/ DebitTokenLock(p)
        \/ DebitTokenCommit(p)
        \/ StreamOpen(p)
        \/ StreamStart(p)
        \/ StreamDropped(p)
        \/ StreamChunk(p)
        \/ StreamEnds(p)
        \/ StreamAexit(p)
        \/ StreamAclose(p)

SpecStream ==
    InitGate /\ [][NextStream]_vars /\ \A p \in Procs : WF_vars(StreamStep(p))

\* the client of the call is closed, once, and so is the stream it opened
BothClosedOnce(u) ==
    /\ u.client = "closed"
    /\ u.client_closes = 1
    /\ u.stream_closes = 1

\* C35: on every termination path of a streaming proxy call (stream
\* exhausted, upstream error while relaying, client disconnect before or
\* during relaying, failure to open the stream) the upstream stream and the
\* upstream HTTP client are eventually closed, each exactly once.
C35_StreamAlwaysClosed ==
    /\ \A p \in Procs :
          (procs[p].upstream.stream = "open") ~>
              BothClosedOnce(procs[p].upstream)
    /\ [](\A p \in Procs :
             /\ procs[p].upstream.client_closes <= 1
             /\ procs[p].upstream.stream_closes <= 1
             /\ (procs[p].resp = "502 upstream_error"
                    => procs[p].upstream.client = "closed"))

\* the same of the calls whose first chunk the server asked for
C35_StartedStreamClosed ==
    /\ \A p \in Procs :
          (procs[p].pc = "st_relay") ~> BothClosedOnce(procs[p].upstream)
    /\ [](\A p \in Procs :
             /\ procs[p].upstream.client_closes <= 1
             /\ procs[p].upstream.stream_closes <= 1
             /\ (procs[p].resp = "502 upstream_error"
                    => procs[p].upstream.client = "closed"))

-----------------------------------------------------------------------------
(* create_quote next to accept_quote *)

\* C36: under any interleaving of create_quote with accept_quote on the same
\* task, a quote is inserted only if the task is still open when it is
\* inserted; hence a task that is in_escrow, delivered or completed has no
\* pending quote.
C36_QuotesOnlyOnOpenTasks ==
    /\ [][\A q \in QuoteIds :
             (hire_quotes[q].status = "absent"
                 /\ hire_quotes'[q].status # "absent")
             => hire_tasks[hire_quotes'[q].task_id].status = "open"]_vars
    /\ [](\A q \in QuoteIds :
             hire_quotes[q].status = "pending"
             => hire_tasks[hire_quotes[q].task_id].status = "open")

-----------------------------------------------------------------------------
(* The account a marketplace endpoint takes from an L402 macaroon *)

\* what _hire_resolve_auth answers to a request that carries the macaroon
\* held by p with its preimage and no X-Token
ResolvedFromHeld(p) ==
    hire_resolve_auth(None, "L402", procs[p].macaroon, procs[p].preimage,
                      used_hashes, now)

\* C37: the account a marketplace endpoint derives from an L402 macaroon sent
\* without X-Token is the account_id the server put into the macaroon when it
\* minted it (none when it put none): a holder who appends first-party
\* caveats, another account_id among them, cannot make an endpoint act as a
\* different account.
C37_IdentityAsMinted ==
    \A p \in Holders :
        (procs[p].handler = "mint" /\ procs[p].pc = "held"
            /\ ResolvedFromHeld(p).error = "")
        => ResolvedFromHeld(p).account_id = procs[p].token

-----------------------------------------------------------------------------
(* hire_collect: what the node pays against what the account is debited *)

\* what a collect request took from the balance of its account
DebitedBy(pr) == IF pr.debits > 0 THEN pr.amount ELSE 0

\* C38: for every collect request, the sats the Lightning node pays out for
\* the supplied invoice never exceed the amount_sats debited from the
\* account.
C38_PaysAtMostDebited ==
    \A p \in Procs :
        procs[p].handler = "hire_collect"
        => procs[p].paid_sats <= DebitedBy(procs[p])

-----------------------------------------------------------------------------
(* One charge for one request *)

\* C39: no request is charged twice: on the gateway and on every marketplace
\* endpoint a request never both marks an L402 payment hash used and debits
\* a balance, also when it carries an X-Token and an L402 header together.
C39_OneChargePerRequest ==
    \A p \in Procs : ~(procs[p].marks > 0 /\ procs[p].debits > 0)

-----------------------------------------------------------------------------
(* The escrow of a task from accept_quote to confirm_delivery *)

\* the amounts of the usage_log rows written for an endpoint
LoggedAmounts(log, endpoint) ==
    {r.amount_sats : r \in {x \in BagToSet(log) : x.endpoint = endpoint}}

\* C40: the escrow is conserved: for every completed task accepted in the
\* bearer flow, the sats confirm_delivery credited to the contractor equal
\* the sats accept_quote debited from the buyer, under any interleaving with
\* update_quote, create_quote and the operations of other accounts.
C40_ReleasedEqualsEscrowed ==
    \A t \in TaskIds :
        hire_tasks[t].status = "completed"
        => /\ UsageCount(usage_log, EscrowLock(t)) = 1
           /\ UsageCount(usage_log, EscrowRelease(t)) = 1
           /\ LoggedAmounts(usage_log, EscrowRelease(t))
                 = LoggedAmounts(usage_log, EscrowLock(t))
====
